---------------------------- MODULE Spec2Model ----------------------------
(***************************************************************************)
(* A model of the blog CMS of src/cms.py: the tag scanner, the series      *)
(* classifier, the metadata extractor, the corpus indexer, the slug        *)
(* allocator and the index page splicer.                                   *)
(*                                                                         *)
(* Text is a sequence of one-character strings, so that the substring      *)
(* tests, the slicing and the regular-expression rewrites of the source    *)
(* are computed character by character as the source computes them.        *)
(***************************************************************************)
EXTENDS Integers, Sequences, FiniteSets, TLC

VARIABLES
    metadata_cache, \* BlogCMS.metadata_cache: slug -> PostMetadata
    blog_files,     \* the documents blog/<slug>.html (index.html apart)
    index_html,     \* the text of blog/index.html, or NoFile
    metadata_file,  \* what posts_metadata.json holds, or NoFile
    last,           \* what the handler that ran last did and reported
    authored,       \* history: slug -> the record the authoring workflow made
    slug_log,       \* history: the create_slug calls, in order
    runs,           \* history: how many times update_blog_index has run
    cls,            \* the classifier's inputs and its result
    backups,        \* the backup copies made so far, by file name
    scan,           \* the extractor's input and the record it returns
    scanner,        \* a BlogPostParser that is fed event by event
    fed             \* history: the events fed to scanner, in order

vars == <<metadata_cache, blog_files, index_html, metadata_file, last,
          authored, slug_log, runs, cls, backups, scan, scanner, fed>>

(***************************************************************************)
(* Text helpers: Python's str operations used by the source.               *)
(***************************************************************************)
LowerLetters ==
    <<"a","b","c","d","e","f","g","h","i","j","k","l","m",
      "n","o","p","q","r","s","t","u","v","w","x","y","z">>

UpperLetters ==
    <<"A","B","C","D","E","F","G","H","I","J","K","L","M",
      "N","O","P","Q","R","S","T","U","V","W","X","Y","Z">>

Digits == <<"0","1","2","3","4","5","6","7","8","9">>

Range(seq) == { seq[i] : i \in 1..Len(seq) }

\* str.lower() of one character
LowerChar(c) ==
    IF c \in Range(UpperLetters)
    THEN LowerLetters[CHOOSE i \in 1..Len(UpperLetters) : UpperLetters[i] = c]
    ELSE c

\* str.lower()
Lower(text) == [i \in 1..Len(text) |-> LowerChar(text[i])]

\* \s of the re module
IsSpace(c) == c \in {" ", "\t", "\n"}

\* \w of the re module
IsWord(c) ==
    c \in Range(LowerLetters) \cup Range(UpperLetters) \cup Range(Digits) \cup {"_"}

\* needle is at the 0-based index i of hay
MatchAt(hay, needle, i) ==
    /\ i + Len(needle) <= Len(hay)
    /\ \A j \in 1..Len(needle) : hay[i + j] = needle[j]

\* needle in hay
Contains(hay, needle) ==
    \E i \in 0..(Len(hay) - Len(needle)) : MatchAt(hay, needle, i)

\* hay.find(needle, start): the least 0-based index >= start, or -1
Find(hay, needle, start) ==
    LET hits == { i \in start..(Len(hay) - Len(needle)) :
                    MatchAt(hay, needle, i) }
    IN  IF hits = {} THEN -1
        ELSE CHOOSE i \in hits : \A j \in hits : i <= j

\* text[:n]
Take(text, n) == SubSeq(text, 1, IF n < Len(text) THEN n ELSE Len(text))

\* text[n:]
Drop(text, n) == SubSeq(text, n + 1, Len(text))

RECURSIVE LStrip(_, _)
\* str.lstrip: drop the leading characters that are in chars
LStrip(text, chars) ==
    IF text # <<>> /\ Head(text) \in chars THEN LStrip(Tail(text), chars)
    ELSE text

RECURSIVE RStrip(_, _)
\* str.rstrip
RStrip(text, chars) ==
    IF text # <<>> /\ text[Len(text)] \in chars
    THEN RStrip(SubSeq(text, 1, Len(text) - 1), chars)
    ELSE text

\* str.strip() with no argument strips white space
Strip(text) == RStrip(LStrip(text, {" ", "\t", "\n"}), {" ", "\t", "\n"})

RECURSIVE Join(_, _)
\* sep.join(parts)
Join(sep, parts) ==
    IF parts = <<>> THEN <<>>
    ELSE IF Len(parts) = 1 THEN parts[1]
    ELSE parts[1] \o sep \o Join(sep, Tail(parts))

RECURSIVE ToDigits(_)
\* str(n) for n >= 0
ToDigits(n) ==
    IF n < 10 THEN <<Digits[n + 1]>>
    ELSE ToDigits(n \div 10) \o <<Digits[(n % 10) + 1]>>


(***************************************************************************)
(* Series classifier: BlogCMS.detect_series_from_content.                  *)
(***************************************************************************)
\* the pattern table, in its declaration order (a dict keeps insertion order)
series_patterns ==
    << <<"after_hours", <<
            <<"n","i","g","h","t">>,
            <<"e","v","e","n","i","n","g">>,
            <<"l","a","t","e">>,
            <<"p","a","s","a","r"," ","m","a","l","a","m">>,
            <<"a","f","t","e","r"," ","h","o","u","r","s">>,
            <<"n","i","g","h","t","l","i","f","e">> >> >>,
       <<"cram_and_cry", <<
            <<"s","t","u","d","y">>,
            <<"c","r","a","m">>,
            <<"c","a","f","e">>,
            <<"c","o","f","f","e","e">>,
            <<"l","i","b","r","a","r","y">>,
            <<"e","x","a","m">>,
            <<"s","t","u","d","y","i","n","g">> >> >>,
       <<"food_for_heartbreak", <<
            <<"f","o","o","d">>,
            <<"e","a","t">>,
            <<"h","e","a","r","t","b","r","e","a","k">>,
            <<"c","o","m","f","o","r","t">>,
            <<"r","e","s","t","a","u","r","a","n","t">>,
            <<"m","e","a","l">> >> >>,
       <<"stressed_depressed", <<
            <<"s","t","r","e","s","s">>,
            <<"d","e","p","r","e","s","s","i","o","n">>,
            <<"m","e","n","t","a","l"," ","h","e","a","l","t","h">>,
            <<"o","v","e","r","w","h","e","l","m">>,
            <<"c","r","i","s","i","s">>,
            <<"b","u","r","n","o","u","t">> >> >>,
       <<"commute_crisis", <<
            <<"c","o","m","m","u","t","e">>,
            <<"t","r","a","n","s","p","o","r","t">>,
            <<"b","u","s">>,
            <<"t","r","a","i","n">>,
            <<"t","r","a","v","e","l">>,
            <<"j","o","u","r","n","e","y">>,
            <<"b","r","t">> >> >> >>

\* f"{title} {content} {keywords}".lower()
text_to_search(title, content, keywords) ==
    Lower(title \o <<" ">> \o content \o <<" ">> \o keywords)

\* sum(1 for pattern in patterns if pattern in text_to_search)
PatternScore(patterns, text) ==
    Cardinality({ i \in 1..Len(patterns) : Contains(text, patterns[i]) })

RECURSIVE series_scores(_, _)
\* the dict series_scores as the sequence of its items <<series, score>>, in
\* insertion order: the series of table[from..] that score above zero
series_scores(text, from) ==
    IF from > Len(series_patterns) THEN <<>>
    ELSE LET series == series_patterns[from][1]
             score  == PatternScore(series_patterns[from][2], text)
         IN  (IF score > 0 THEN << <<series, score>> >> ELSE <<>>)
             \o series_scores(text, from + 1)

RECURSIVE PyMaxLast(_, _)
\* a max that takes a later item of the same score
PyMaxLast(items, best) ==
    IF items = <<>> THEN best
    ELSE PyMaxLast(Tail(items),
                   IF Head(items)[2] >= best[2] THEN Head(items) ELSE best)

RECURSIVE PyMax(_, _)
\* max(series_scores, key=series_scores.get): the builtin keeps the item it
\* holds unless a later one is strictly greater
PyMax(items, best) ==
    IF items = <<>> THEN best
    ELSE PyMax(Tail(items),
               IF Head(items)[2] > best[2] THEN Head(items) ELSE best)

\* the result is a text: the series key as one chunk, or the empty text
detect_series_from_content(title, content, keywords) ==
    LET scores == series_scores(text_to_search(title, content, keywords), 1)
    IN  IF scores # <<>> THEN <<PyMax(Tail(scores), Head(scores))[1]>>
        ELSE <<>>

(***************************************************************************)
(* The store.  metadata_cache is a Python dict, which keeps its keys in    *)
(* insertion order: it is the sequence of its items <<slug, record>>.      *)
(***************************************************************************)
DictKeys(d) == { d[i][1] : i \in 1..Len(d) }

\* key in d
DictHas(d, key) == key \in DictKeys(d)

\* d[key], for a key of d
DictAt(d, key) == d[CHOOSE i \in 1..Len(d) : d[i][1] = key][2]

\* d[key] = value: a key of d keeps its place, a new key goes last
DictSet(d, key, value) ==
    IF DictHas(d, key)
    THEN [i \in 1..Len(d) |-> IF d[i][1] = key THEN <<key, value>> ELSE d[i]]
    ELSE Append(d, <<key, value>>)

\* del d[key]
DictDel(d, key) == SelectSeq(d, LAMBDA item : item[1] # key)

\* d.values(), in order
DictValues(d) == [i \in 1..Len(d) |-> d[i][2]]

(***************************************************************************)
(* Slug allocator: BlogCMS.create_slug.                                    *)
(***************************************************************************)
RECURSIVE SubSpaces(_)
\* re.sub(r'[\s]+', '-', slug)
SubSpaces(text) ==
    IF text = <<>> THEN <<>>
    ELSE IF IsSpace(Head(text))
         THEN <<"-">> \o SubSpaces(LStrip(text, {" ", "\t", "\n"}))
         ELSE <<Head(text)>> \o SubSpaces(Tail(text))

\* re.sub(r'[^\w\-]+', '', slug)
SubNonWord(text) == SelectSeq(text, LAMBDA c : IsWord(c) \/ c = "-")

RECURSIVE SubHyphens(_)
\* re.sub(r'\-\-+', '-', slug)
SubHyphens(text) ==
    IF text = <<>> THEN <<>>
    ELSE IF Head(text) = "-"
         THEN <<"-">> \o SubHyphens(LStrip(text, {"-"}))
         ELSE <<Head(text)>> \o SubHyphens(Tail(text))

\* the slug before the uniqueness loop (original_slug)
original_slug(title) ==
    LStrip(RStrip(SubHyphens(SubNonWord(SubSpaces(Strip(Lower(title))))),
                  {"-"}), {"-"})

\* f"{original_slug}-{counter}"
Suffixed(base, counter) == base \o <<"-">> \o ToDigits(counter)

\* create_slug without the loop of lines 582-585
UniqueSlugNoCheck(slug, base, counter) == slug

RECURSIVE UniqueSlug(_, _, _)
\* while slug in self.metadata_cache: slug = f"{original_slug}-{counter}"
UniqueSlug(slug, base, counter) ==
    IF DictHas(metadata_cache, slug)
    THEN UniqueSlug(Suffixed(base, counter), base, counter + 1)
    ELSE slug

create_slug(title) ==
    UniqueSlug(original_slug(title), original_slug(title), 1)

(***************************************************************************)
(* Tag scanner: BlogPostParser.  A document is the sequence of events the  *)
(* HTMLParser base class feeds to the handlers: start tags with their      *)
(* attribute list, end tags and text data.                                 *)
(***************************************************************************)
StartTag(tag, attrs) == [kind |-> "start", tag |-> tag, attrs |-> attrs]
EndTag(tag)          == [kind |-> "end", tag |-> tag]
Data(text)           == [kind |-> "data", data |-> text]

\* dict(attrs).get(key, default): the last pair of a repeated key wins
AttrGet(attrs, key, default) ==
    LET at == { i \in 1..Len(attrs) : attrs[i][1] = key }
    IN  IF at = {} THEN default
        ELSE attrs[CHOOSE i \in at : \A j \in at : j <= i][2]

\* a value no attribute has: dict.get(key) of a missing key
None == <<"None">>

\* the empty dict, for a dict kept as a function (its order is never read)
EmptyMap == [k \in {} |-> k]

\* d[key] = value on a dict kept as a function
MapPut(d, key, value) ==
    [k \in DOMAIN d \cup {key} |-> IF k = key THEN value ELSE d[k]]

\* d.get(key, default)
MapGet(d, key, default) == IF key \in DOMAIN d THEN d[key] ELSE default

\* BlogPostParser.__init__
ParserInit ==
    [ meta_tags     |-> EmptyMap,
      title         |-> << >>,
      author        |-> << >>,
      post_date     |-> << >>,
      content       |-> << >>,
      youtube_id    |-> << >>,
      current_tag   |-> "",
      in_title      |-> FALSE,
      in_author     |-> FALSE,
      in_date       |-> FALSE,
      in_content    |-> FALSE,
      content_depth |-> 0 ]

IsIdChar(c) == IsWord(c) \/ c = "-"

RECURSIVE TakeWhileId(_)
\* the longest prefix of [a-zA-Z0-9_-] characters
TakeWhileId(text) ==
    IF text # <<>> /\ IsIdChar(Head(text))
    THEN <<Head(text)>> \o TakeWhileId(Tail(text))
    ELSE <<>>

EmbedMarker == <<"youtube.com/embed/">>

\* re.search(r'youtube\.com/embed/([a-zA-Z0-9_-]+)', src): group 1 of the
\* leftmost match, or None
EmbedIdSearch(src) ==
    LET hits == { i \in 1..Len(src) :
                    /\ src[i] = EmbedMarker[1]
                    /\ i < Len(src)
                    /\ IsIdChar(src[i + 1]) }
    IN  IF hits = {} THEN None
        ELSE TakeWhileId(Drop(src, CHOOSE i \in hits : \A j \in hits : i <= j))

handle_starttag(p, tag, attrs) ==
    LET class == AttrGet(attrs, "class", <<>>)
        src   == AttrGet(attrs, "src", <<>>)
        name         == AttrGet(attrs, "name", <<>>)
        property_val == AttrGet(attrs, "property", <<>>)
        content      == AttrGet(attrs, "content", <<>>)
        q ==
          IF tag = "meta" THEN
              IF name # <<>>
              THEN [p EXCEPT !.meta_tags = MapPut(@, name, content)]
              ELSE IF property_val # <<>>
              THEN [p EXCEPT !.meta_tags = MapPut(@, property_val, content)]
              ELSE p
          ELSE IF tag = "title" THEN [p EXCEPT !.in_title = TRUE]
          ELSE IF tag = "span"
                  /\ AttrGet(attrs, "class", None) = <<"post-author">>
          THEN [p EXCEPT !.in_author = TRUE]
          ELSE IF tag = "span"
                  /\ AttrGet(attrs, "class", None) = <<"post-date">>
          THEN [p EXCEPT !.in_date = TRUE]
          ELSE IF tag = "div" /\ Contains(class, <<"article-content">>)
          THEN [p EXCEPT !.in_content = TRUE, !.content_depth = 1]
          ELSE IF tag = "div" /\ Contains(class, <<"video-container">>)
          THEN [p EXCEPT !.in_content = TRUE, !.content_depth = 1]
          ELSE IF tag = "div" /\ Contains(class, <<"poster-container">>)
          THEN [p EXCEPT !.in_content = TRUE, !.content_depth = 1]
          ELSE IF tag = "iframe" /\ Contains(src, EmbedMarker)
          THEN IF EmbedIdSearch(src) # None
               THEN [p EXCEPT !.youtube_id = EmbedIdSearch(src)]
               ELSE p
          ELSE IF p.in_content /\ tag = "div"
          THEN [p EXCEPT !.content_depth = @ + 1]
          ELSE p
    IN  [q EXCEPT !.current_tag = tag]

\* handle_endtag with every </div> counted, in a content container or not
handle_endtag_unguarded(p, tag) ==
    LET q ==
          IF tag = "title" THEN [p EXCEPT !.in_title = FALSE]
          ELSE IF tag = "span" /\ p.in_author
          THEN [p EXCEPT !.in_author = FALSE]
          ELSE IF tag = "span" /\ p.in_date
          THEN [p EXCEPT !.in_date = FALSE]
          ELSE IF tag = "div"
          THEN [p EXCEPT !.content_depth = @ - 1,
                         !.in_content = ~(p.content_depth - 1 <= 0)]
          ELSE p
    IN  [q EXCEPT !.current_tag = ""]

handle_endtag(p, tag) ==
    LET q ==
          IF tag = "title" THEN [p EXCEPT !.in_title = FALSE]
          ELSE IF tag = "span" /\ p.in_author
          THEN [p EXCEPT !.in_author = FALSE]
          ELSE IF tag = "span" /\ p.in_date
          THEN [p EXCEPT !.in_date = FALSE]
          ELSE IF tag = "div" /\ p.in_content
          THEN [p EXCEPT !.content_depth = @ - 1,
                         !.in_content = ~(p.content_depth - 1 <= 0)]
          ELSE p
    IN  [q EXCEPT !.current_tag = ""]

handle_data(p, raw) ==
    LET data == Strip(raw)
    IN  IF data = <<>> THEN p
        ELSE IF p.in_title  THEN [p EXCEPT !.title = @ \o data]
        ELSE IF p.in_author THEN [p EXCEPT !.author = @ \o data]
        ELSE IF p.in_date   THEN [p EXCEPT !.post_date = @ \o data]
        ELSE IF p.in_content THEN [p EXCEPT !.content = @ \o data \o <<" ">>]
        ELSE p

\* one event of HTMLParser.feed
handle_event(p, e) ==
    IF e.kind = "start" THEN handle_starttag(p, e.tag, e.attrs)
    ELSE IF e.kind = "end" THEN handle_endtag(p, e.tag)
    ELSE handle_data(p, e.data)

RECURSIVE feed(_, _)
\* parser.feed(content): every event of the document, left to right
feed(p, events) ==
    IF events = <<>> THEN p
    ELSE feed(handle_event(p, Head(events)), Tail(events))

(***************************************************************************)
(* Dates.  A timestamp string "%Y-%m-%d %H:%M:%S" is kept as the tuple of  *)
(* its six zero-padded fields <<Y, m, d, H, M, S>>: the order of the       *)
(* strings is the lexicographic order of the tuples.                       *)
(***************************************************************************)
ValueError == <<"ValueError">>

MonthAbbr ==
    << <<"J","a","n">>,
       <<"F","e","b">>,
       <<"M","a","r">>,
       <<"A","p","r">>,
       <<"M","a","y">>,
       <<"J","u","n">>,
       <<"J","u","l">>,
       <<"A","u","g">>,
       <<"S","e","p">>,
       <<"O","c","t">>,
       <<"N","o","v">>,
       <<"D","e","c">> >>

MonthName ==
    << <<"J","a","n","u","a","r","y">>,
       <<"F","e","b","r","u","a","r","y">>,
       <<"M","a","r","c","h">>,
       <<"A","p","r","i","l">>,
       <<"M","a","y">>,
       <<"J","u","n","e">>,
       <<"J","u","l","y">>,
       <<"A","u","g","u","s","t">>,
       <<"S","e","p","t","e","m","b","e","r">>,
       <<"O","c","t","o","b","e","r">>,
       <<"N","o","v","e","m","b","e","r">>,
       <<"D","e","c","e","m","b","e","r">> >>

RECURSIVE Split(_)
\* text.split(): the words between runs of white space
Split(text) ==
    LET body == LStrip(text, {" ", "\t", "\n"})
        n    == IF \E i \in 1..Len(body) : IsSpace(body[i])
                THEN (CHOOSE i \in 1..Len(body) :
                        /\ IsSpace(body[i])
                        /\ \A j \in 1..(i - 1) : ~IsSpace(body[j])) - 1
                ELSE Len(body)
    IN  IF body = <<>> THEN <<>>
        ELSE <<Take(body, n)>> \o Split(Drop(body, n))

RECURSIVE DigitsValue(_, _)
\* int(text) of a text of digits, -1 for any other text
DigitsValue(text, acc) ==
    IF text = <<>> THEN acc
    ELSE IF Head(text) \notin Range(Digits) THEN -1
    ELSE DigitsValue(Tail(text),
            10 * acc + (CHOOSE d \in 0..9 : Digits[d + 1] = Head(text)))

\* the month a name stands for (strptime ignores case), 0 for no month
MonthOf(word, names) ==
    IF \E m \in 1..12 : Lower(names[m]) = Lower(word)
    THEN CHOOSE m \in 1..12 : Lower(names[m]) = Lower(word)
    ELSE 0

DaysIn(year, month) ==
    IF month = 2
    THEN IF year % 4 = 0 /\ (year % 100 # 0 \/ year % 400 = 0) THEN 29 ELSE 28
    ELSE IF month \in {4, 6, 9, 11} THEN 30 ELSE 31

\* the date of day, month and year words, or ValueError
DateOfWords(day, month, year, names) ==
    LET d == IF Len(day) \in {1, 2} THEN DigitsValue(day, 0) ELSE -1
        m == MonthOf(month, names)
        y == IF Len(year) = 4 THEN DigitsValue(year, 0) ELSE -1
    IN  IF m = 0 \/ y < 1 \/ d < 1 THEN ValueError
        ELSE IF d > DaysIn(y, m) THEN ValueError
        ELSE <<y, m, d>>

\* datetime.strptime(text, fmt) for the three formats of the source: the
\* fields are separated by white space and the day is followed by its comma
strptime(text, fmt) ==
    LET words == Split(text)
    IN  IF Len(words) # 3 THEN ValueError
        ELSE IF fmt = "%d %b %Y"
        THEN DateOfWords(words[1], words[2], words[3], MonthAbbr)
        ELSE IF words[2] = <<>> \/ words[2][Len(words[2])] # ","
        THEN ValueError
        ELSE DateOfWords(Take(words[2], Len(words[2]) - 1), words[1], words[3],
                         IF fmt = "%b %d, %Y" THEN MonthAbbr ELSE MonthName)

\* date_obj.strftime("%Y-%m-%d %H:%M:%S") of a parsed date: midnight
StrftimeStamp(date) == <<date[1], date[2], date[3], 0, 0, 0>>

\* date_obj.strftime("%b %d, %Y") of strptime(stamp, "%Y-%m-%d %H:%M:%S")
StrftimeDisplay(stamp) ==
    MonthAbbr[stamp[2]] \o <<" ">>
    \o (IF stamp[3] < 10 THEN <<"0">> ELSE <<>>) \o ToDigits(stamp[3])
    \o <<",", " ">> \o ToDigits(stamp[1])

date_formats == <<"%b %d, %Y", "%B %d, %Y", "%d %b %Y">>

RECURSIVE ParsePostDate(_, _)
\* for fmt in [...]: try strptime ... break / except ValueError: continue
ParsePostDate(post_date, from) ==
    IF from > Len(date_formats) THEN <<>>
    ELSE IF strptime(post_date, date_formats[from]) # ValueError
    THEN StrftimeStamp(strptime(post_date, date_formats[from]))
    ELSE ParsePostDate(post_date, from + 1)

\* a < b for two timestamp strings
RECURSIVE StampLess(_, _)
StampLess(a, b) ==
    IF a = <<>> \/ b = <<>> THEN a = <<>> /\ b # <<>>
    ELSE IF Head(a) # Head(b) THEN Head(a) < Head(b)
    ELSE StampLess(Tail(a), Tail(b))

(***************************************************************************)
(* Metadata extractor: BlogCMS.parse_html_file.                            *)
(***************************************************************************)
DescriptionLimit == 200

site_suffix == <<" ","-"," ","T","h","e"," ","B","a","n","d","a","r"," ",
                 "B","r","e","a","k","d","o","w","n","s">>

default_keywords == <<"b","a","n","d","a","r"," ","s","u","n","w","a","y",",",
                      " ","b","l","o","g">>

default_author == <<"T","h","e"," ","T","e","a","m">>

placeholder_image ==
    <<"https://via.placeholder.com/800x400/cccccc/000000?text=No+Image">>

RECURSIVE Replace(_, _, _)
\* text.replace(old, new), old not empty
Replace(text, old, new) ==
    IF Len(text) < Len(old) THEN text
    ELSE IF SubSeq(text, 1, Len(old)) = old
         THEN new \o Replace(Drop(text, Len(old)), old, new)
         ELSE <<Head(text)>> \o Replace(Tail(text), old, new)

\* marker in content, for the raw text of the document: the markers are
\* class names, which a document carries in an attribute value or in text
RawContains(events, marker) ==
    \E i \in 1..Len(events) :
        \/ /\ events[i].kind = "start"
           /\ \E j \in 1..Len(events[i].attrs) :
                  Contains(events[i].attrs[j][2], marker)
        \/ /\ events[i].kind = "data"
           /\ Contains(events[i].data, marker)

RECURSIVE Md5(_, _)
\* hashlib.md5(content.encode()).hexdigest(): a digest of the whole text
Md5(events, h) ==
    IF events = <<>> THEN h
    ELSE LET e == Head(events)
             w == IF e.kind = "data" THEN 3 + Len(e.data)
                  ELSE IF e.kind = "start" THEN 5 + Len(e.attrs)
                  ELSE 7
         IN  Md5(Tail(events), (31 * h + w) % 65536)

\* the digest as the text of its digits
hexdigest(events) == ToDigits(Md5(events, 0))

\* PostMetadata(...), with the dataclass defaults for what is not passed
PostMetadata(slug, title, author, post_type, description, keywords, image_url, series, youtube_id, created_date, modified_date, file_hash, indexed_from_file) ==
    [ slug              |-> slug,
      title             |-> title,
      author            |-> author,
      post_type         |-> post_type,
      description       |-> description,
      keywords          |-> keywords,
      image_url         |-> image_url,
      series            |-> series,
      youtube_id        |-> youtube_id,
      created_date      |-> created_date,
      modified_date     |-> modified_date,
      published         |-> TRUE,
      view_count        |-> 0,
      file_hash         |-> file_hash,
      indexed_from_file |-> indexed_from_file ]

\* a or b
Or(a, b) == IF a # <<>> THEN a ELSE b

\* ExtractDescription with a body of exactly the limit cut as well
ExtractDescriptionFrom(parser) ==
    IF Len(parser.content) >= DescriptionLimit
    THEN Or(MapGet(parser.meta_tags, <<"description">>, <<>>),
            Or(MapGet(parser.meta_tags, <<"og:description">>, <<>>),
               Take(parser.content, DescriptionLimit) \o <<".", ".", ".">>))
    ELSE parser.content

\* lines 384-388: the conditional expression binds weaker than "or", so the
\* else branch is taken for every short body, whatever the meta tags hold
ExtractDescription(parser) ==
    IF Len(parser.content) > DescriptionLimit
    THEN Or(MapGet(parser.meta_tags, <<"description">>, <<>>),
            Or(MapGet(parser.meta_tags, <<"og:description">>, <<>>),
               Take(parser.content, DescriptionLimit) \o <<".", ".", ".">>))
    ELSE parser.content

\* lines 375-381
ExtractPostType(events, parser) ==
    IF RawContains(events, <<"poster-container">>) THEN <<"Poster">>
    ELSE IF RawContains(events, <<"video-container">>)
            \/ parser.youtube_id # <<>>
    THEN <<"Video">>
    ELSE <<"Article">>

\* lines 401-418
ExtractCreatedDate(parser, mtime) ==
    LET parsed == IF parser.post_date # <<>>
                  THEN ParsePostDate(parser.post_date, 1) ELSE <<>>
    IN  IF parsed # <<>> THEN parsed ELSE mtime

\* lines 426-441: the record built from the extracted fields
ParsedRecord(slug, doc, parser, title, keywords, created_date) ==
    PostMetadata(
        slug,
        Or(title, <<"Untitled (">> \o slug \o <<")">>),
        Or(parser.author, default_author),
        ExtractPostType(doc.events, parser),
        ExtractDescription(parser),
        keywords,
        Or(MapGet(parser.meta_tags, <<"og:image">>, <<>>),
           Or(MapGet(parser.meta_tags, <<"twitter:image">>, <<>>),
              placeholder_image)),
        detect_series_from_content(title, parser.content, keywords),
        parser.youtube_id,
        created_date,
        created_date,
        hexdigest(doc.events),
        TRUE)

\* lines 371-418: the fields read off the fed parser
ParsedFields(slug, doc, parser) ==
    ParsedRecord(slug, doc, parser,
                 Strip(Replace(parser.title, site_suffix, <<>>)),
                 MapGet(parser.meta_tags, <<"keywords">>, default_keywords),
                 ExtractCreatedDate(parser, doc.mtime))

\* parse_html_file of a readable document doc = [events, mtime] at
\* blog/<slug>.html
parse_html_file(slug, doc) ==
    ParsedFields(slug, doc, feed(ParserInit, doc.events))

(***************************************************************************)
(* Index page splicer: generate_blog_card_html and update_blog_index.      *)
(* The page is a text whose markup literals are whole chunks.              *)
(***************************************************************************)
NoFile == <<"NoFile">>

insertion_marker == <<"<div class=", "\"blog-grid\"", ">">>

end_marker == <<"</div>">>

\* the card of one record; now is the clock, read when created_date does
\* not parse
generate_blog_card_html(metadata, now) ==
    LET formatted_date ==
            IF Len(metadata.created_date) = 6
            THEN StrftimeDisplay(metadata.created_date)
            ELSE StrftimeDisplay(now)
        data_series ==
            IF metadata.series # <<>>
            THEN <<"data-series=\"">> \o metadata.series \o <<"\"">>
            ELSE <<>>
    IN  <<"<div class=", "\"blog-card\"", " ">> \o data_series
        \o <<">\n    <a href=\"">> \o metadata.slug
        \o <<".html\">\n        ", "<div class=", "\"card-image-wrapper\"",
             ">\n            ", "<div class=", "\"card-category\"", ">">>
        \o metadata.post_type
        \o <<"</div>", "\n            <img loading=\"lazy\" src=\"">>
        \o metadata.image_url \o <<"\" alt=\"">> \o metadata.description
        \o <<"\">\n        ", "</div>", "\n        ", "<div class=",
             "\"card-content\"", ">\n            <h3>">>
        \o metadata.title
        \o <<"</h3>\n            <small class=\"card-meta\">By ">>
        \o metadata.author \o <<" | ">> \o formatted_date
        \o <<"</small>\n            <p>">> \o metadata.description
        \o <<"</p>\n        ", "</div>", "\n    </a>\n", "</div>">>

RECURSIVE InsertByDate(_, _)
\* where a stable descending sort puts post among the sorted posts before it
InsertByDate(sorted, post) ==
    IF sorted = <<>> THEN <<post>>
    ELSE IF StampLess(Head(sorted).created_date, post.created_date)
         THEN <<post>> \o sorted
         ELSE <<Head(sorted)>> \o InsertByDate(Tail(sorted), post)

RECURSIVE sorted_posts(_)
\* sorted(values, key=lambda x: x.created_date, reverse=True): stable, so
\* posts of one date keep the order of the dict
sorted_posts(posts) ==
    IF posts = <<>> THEN <<>>
    ELSE InsertByDate(sorted_posts(SubSeq(posts, 1, Len(posts) - 1)),
                      posts[Len(posts)])

\* cards_html without the test of line 941
cards_html_unfiltered(cache, now) ==
    LET posts == sorted_posts(DictValues(cache))
    IN  [i \in 1..Len(posts) |-> generate_blog_card_html(posts[i], now)]

\* the cards of the published posts, newest first
cards_html(cache, now) ==
    LET posts == SelectSeq(sorted_posts(DictValues(cache)),
                           LAMBDA post : post.published)
    IN  [i \in 1..Len(posts) |-> generate_blog_card_html(posts[i], now)]

begin_comment == <<"\n\n                <!-- Auto-generated blog cards -->\n\n">>

end_comment ==
    <<"\n\n                <!-- End auto-generated cards -->\n\n            ">>

card_separator == <<"\n\n                ">>

\* Splice with the text kept from after the closing </div> (line 973 with
\* content[end_pos + len(end_marker):])
SpliceDropEnd(content, cache, now) ==
    IF ~Contains(content, insertion_marker)
    THEN [outcome |-> "marker_not_found", content |-> content]
    ELSE LET start_pos == Find(content, insertion_marker, 0)
                          + Len(insertion_marker)
             end_pos   == Find(content, end_marker, start_pos)
         IN  IF end_pos = -1
             THEN [outcome |-> "structure_error", content |-> content]
             ELSE [outcome |-> "written",
                   content |-> Take(content, start_pos)
                               \o begin_comment
                               \o Join(card_separator, cards_html(cache, now))
                               \o end_comment
                               \o Drop(content, end_pos + Len(end_marker))]

\* Splice without the test of lines 963-965: content[-1:] is the last
\* character of the text
SpliceUnclosed(content, cache, now) ==
    IF ~Contains(content, insertion_marker)
    THEN [outcome |-> "marker_not_found", content |-> content]
    ELSE LET start_pos == Find(content, insertion_marker, 0)
                          + Len(insertion_marker)
             end_pos   == Find(content, end_marker, start_pos)
         IN  [outcome |-> "written",
              content |-> Take(content, start_pos)
                          \o begin_comment
                          \o Join(card_separator, cards_html(cache, now))
                          \o end_comment
                          \o (IF end_pos = -1
                              THEN Drop(content, Len(content) - 1)
                              ELSE Drop(content, end_pos))]

\* lines 944-974: the outcome and the text to write, for the text read
Splice(content, cache, now) ==
    IF ~Contains(content, insertion_marker)
    THEN [outcome |-> "marker_not_found", content |-> content]
    ELSE LET start_pos == Find(content, insertion_marker, 0)
                          + Len(insertion_marker)
             end_pos   == Find(content, end_marker, start_pos)
         IN  IF end_pos = -1
             THEN [outcome |-> "structure_error", content |-> content]
             ELSE [outcome |-> "written",
                   content |-> Take(content, start_pos)
                               \o begin_comment
                               \o Join(card_separator, cards_html(cache, now))
                               \o end_comment
                               \o Drop(content, end_pos)]

(***************************************************************************)
(* Authoring: get_user_input, load_template, generate_post_html and        *)
(* create_post_file.  A form is what the prompts of get_user_input have    *)
(* accepted; a template is a document whose texts carry the placeholders   *)
(* as chunks.                                                              *)
(***************************************************************************)
\* the three template files, by post type
Templates ==
    LET head == <<
            StartTag("title", <<>>),
            Data(<<"{TITLE}">> \o site_suffix),
            EndTag("title"),
            StartTag("meta", << <<"name", <<"description">> >>,
                                <<"content", <<"{DESCRIPTION}">> >> >>),
            StartTag("meta", << <<"name", <<"keywords">> >>,
                                <<"content", <<"{KEYWORDS}">> >> >>),
            StartTag("meta", << <<"property", <<"og:image">> >>,
                                <<"content", <<"{IMAGE_URL}">> >> >>),
            StartTag("span", << <<"class", <<"post-author">> >> >>),
            Data(<<"{AUTHOR}">>),
            EndTag("span"),
            StartTag("span", << <<"class", <<"post-date">> >> >>),
            Data(<<"{POST_DATE}">>),
            EndTag("span") >>
    IN  [ Article |-> head \o <<
            StartTag("div", << <<"class", <<"article-content">> >> >>),
            Data(<<"{CONTENT}">>),
            EndTag("div") >>,
          Poster |-> head \o <<
            StartTag("div", << <<"class", <<"poster-container">> >> >>),
            StartTag("img", << <<"src", <<"{IMAGE_URL}">> >> >>),
            Data(<<"{CONTENT}">>),
            EndTag("div") >>,
          Video |-> head \o <<
            StartTag("div", << <<"class", <<"video-container">> >> >>),
            StartTag("iframe", << <<"src", <<"https://www.",
                                   "youtube.com/embed/", "{YOUTUBE_ID}">> >> >>),
            EndTag("iframe"),
            Data(<<"{CONTENT}">>),
            EndTag("div") >> ]

\* the replacements dict of generate_post_html, in its order
replacements(metadata, content) ==
    << << <<"{TITLE}">>,       metadata.title >>,
       << <<"{DESCRIPTION}">>, metadata.description >>,
       << <<"{KEYWORDS}">>,    metadata.keywords >>,
       << <<"{SLUG}">>,        metadata.slug >>,
       << <<"{IMAGE_URL}">>,   metadata.image_url >>,
       << <<"{AUTHOR}">>,      metadata.author >>,
       << <<"{POST_DATE}">>,   StrftimeDisplay(metadata.created_date) >>,
       << <<"{CONTENT}">>,     content >>,
       << <<"{YOUTUBE_ID}">>,  metadata.youtube_id >> >>

RECURSIVE ReplaceAll(_, _)
\* for placeholder, value in replacements.items(): html = html.replace(...)
ReplaceAll(text, pairs) ==
    IF pairs = <<>> THEN text
    ELSE ReplaceAll(Replace(text, Head(pairs)[1], Head(pairs)[2]), Tail(pairs))

\* the replacements, applied to every text of one event of the template
ReplaceInEvent(e, pairs) ==
    IF e.kind = "data" THEN Data(ReplaceAll(e.data, pairs))
    ELSE IF e.kind = "start"
    THEN StartTag(e.tag, [i \in 1..Len(e.attrs) |->
                            <<e.attrs[i][1], ReplaceAll(e.attrs[i][2], pairs)>>])
    ELSE e

\* generate_post_html, the template having been found
generate_post_html(metadata, content) ==
    LET template == IF metadata.post_type = <<"Poster">> THEN Templates.Poster
                    ELSE IF metadata.post_type = <<"Video">> THEN Templates.Video
                    ELSE Templates.Article
    IN  [i \in 1..Len(template) |->
            ReplaceInEvent(template[i], replacements(metadata, content))]

\* validate_youtube_id: ^[a-zA-Z0-9_-]{11}$
validate_youtube_id(youtube_id) ==
    /\ Len(youtube_id) = 11
    /\ \A i \in 1..Len(youtube_id) : IsIdChar(youtube_id[i])

\* the record get_user_input returns for a new post (edit_post is None)
get_user_input(form, slug, now) ==
    PostMetadata(slug, form.title, form.author, form.post_type,
                 form.description, form.keywords, form.image_url, form.series,
                 IF form.post_type = <<"Video">> THEN form.youtube_id ELSE <<>>,
                 now, now, <<>>, FALSE)

(***************************************************************************)
(* The inputs of the model: documents, forms, clock readings.              *)
(***************************************************************************)
\* how many documents the blog directory holds in Spec and SpecReindex
MaxFiles == 2
\* how many times create_slug is called in SpecSlug
MaxCreates == 3

\* clock readings (datetime.now()) and file modification times
ClockA == <<2024, 3, 1, 10, 30, 0>>
ClockB == <<2023, 12, 31, 23, 59, 59>>
Times  == { ClockA, ClockB }

\* a scanned article with every signal present
DocNight(mtime) ==
    [ events |-> <<
        StartTag("title", <<>>),
        Data(<<"N","i","g","h","t">> \o site_suffix),
        EndTag("title"),
        StartTag("meta", << <<"name", <<"description">> >>,
                            <<"content", <<"d","1">> >> >>),
        StartTag("span", << <<"class", <<"post-author">> >> >>),
        Data(<<"A","n","n">>),
        EndTag("span"),
        StartTag("span", << <<"class", <<"post-date">> >> >>),
        Data(<<"J","a","n"," ","0","5",","," ","2","0","2","4">>),
        EndTag("span"),
        StartTag("div", << <<"class", <<"article-content">> >> >>),
        Data(<<"b","u","s">>),
        EndTag("div") >>,
      mtime |-> mtime ]

\* a video post with no title, author or date
DocExam(mtime) ==
    [ events |-> <<
        StartTag("div", << <<"class", <<"post", " ", "video-container">> >> >>),
        StartTag("iframe", << <<"src", <<"https://www.", "youtube.com/embed/">>
                                        \o <<"a","b","c">> >> >>),
        EndTag("iframe"),
        StartTag("div", <<>>),
        Data(<<" ","E","x","a","m"," ">>),
        EndTag("div"),
        EndTag("div") >>,
      mtime |-> mtime ]

\* the documents a user may put into the blog directory
CorpusDocs == { DocNight(ClockA), DocExam(ClockB) }

SlugAB1 == <<"a","-","b","-","1">>
SlugN   == <<"n">>

\* the file stems a user gives such documents
FileSlugs == { SlugAB1, SlugN }

FormJane ==
    [ post_type   |-> <<"Article">>,
      title       |-> <<"a"," ","b">>,
      author      |-> <<"J","a","n","e">>,
      series      |-> <<"cram_and_cry">>,
      youtube_id  |-> <<>>,
      description |-> <<"x">>,
      keywords    |-> <<"k">>,
      image_url   |-> <<"http://i/1">>,
      content     |-> <<"t","r","a","i","n">> ]

FormVideo ==
    [ post_type   |-> <<"Video">>,
      title       |-> <<"A"," "," ","b","!">>,
      author      |-> default_author,
      series      |-> <<>>,
      youtube_id  |-> <<"d","Q","w","4","w","9","W","g","X","c","Q">>,
      description |-> <<"y">>,
      keywords    |-> <<>>,
      image_url   |-> <<"http://i/2">>,
      content     |-> <<>> ]

\* a title of punctuation only, which the prompt of lines 627-638 accepts
FormBang ==
    [ post_type   |-> <<"Article">>,
      title       |-> <<"!","!","!">>,
      author      |-> default_author,
      series      |-> <<>>,
      youtube_id  |-> <<>>,
      description |-> <<"z">>,
      keywords    |-> <<>>,
      image_url   |-> <<"http://i/3">>,
      content     |-> <<>> ]

\* what get_user_input accepts: a title and a description that are not
\* empty, a valid image URL, a valid video id for a video
Forms == { FormJane, FormVideo, FormBang }

\* create_post_file, lines 863-881: the document written for a new post
post_file(form, slug, now) ==
    [ events |-> generate_post_html(get_user_input(form, slug, now),
                                    form.content),
      mtime  |-> now ]

(***************************************************************************)
(* The documents and slugs of the model are finitely many, so the scan of  *)
(* each document and the text of each new post are computed once and       *)
(* looked up by the handlers.                                              *)
(***************************************************************************)
\* the slugs create_slug can return within the bounds
CreatedSlugs ==
    { original_slug(form.title) : form \in Forms }
    \cup { Suffixed(original_slug(form.title), k) :
             form \in Forms, k \in 1..(MaxFiles + MaxCreates) }

AllSlugs == FileSlugs \cup CreatedSlugs

PostFiles ==
    [ form \in Forms, slug \in AllSlugs, now \in Times |->
        post_file(form, slug, now) ]

AllDocs ==
    CorpusDocs
    \cup { PostFiles[form, slug, now] :
             form \in Forms, slug \in AllSlugs, now \in Times }

\* parse_html_file(slug, doc), looked up
Parsed == [ slug \in AllSlugs, doc \in AllDocs |-> parse_html_file(slug, doc) ]


(***************************************************************************)
(* The handlers.  Each action is one run of a handler of BlogCMS, from its *)
(* call to its return, with what the user and the file system answer drawn *)
(* as inputs.  last holds what the run did and reported.                   *)
(***************************************************************************)
\* MapPut for the blog directory; a file removed
MapDel(d, key) == [k \in DOMAIN d \ {key} |-> d[k]]

\* the orders in which glob may list the files
Orders(S) ==
    { order \in [1..Cardinality(S) -> S] :
        \A i, j \in 1..Cardinality(S) : order[i] = order[j] => i = j }

\* posts_metadata.json: absent, holding a store, or cut short by a failed write
NoMetadataFile == [state |-> "absent", data |-> <<>>]
Json(cache)    == [state |-> "json", data |-> cache]
Truncated      == [state |-> "truncated", data |-> <<>>]

\* how a call of _save_metadata may end: the dump written, open() raising,
\* or the write raising after open(..., 'w') has emptied the file
SaveOutcomes == {"saved", "open_failed", "dump_failed"}

\* _save_metadata: what the file holds after the call (the exception is
\* logged and swallowed)
save_metadata(cache, outcome) ==
    IF outcome = "saved" THEN Json(cache)
    ELSE IF outcome = "open_failed" THEN metadata_file
    ELSE Truncated

\* how shutil.copy2 may end
BackupOutcomes == {"copied", "copy_failed"}

\* the file name of a copy: <stem>_<timestamp>.bak in the backup directory
BackupName(stem, now) == <<stem, now>>

\* Path("blog/index.html").stem
IndexStem == <<"index">>

\* create_backup, lines 798-813: the copies afterwards.  The failure of
\* the copy is logged and "" returned, which no caller reads
create_backup(dir, stem, exists, content, now, outcome) ==
    IF ~exists THEN dir
    ELSE IF outcome = "copied" THEN MapPut(dir, BackupName(stem, now), content)
    ELSE dir

\* what update_blog_index leaves: its outcome, index.html and the copies
IndexResult(splice, dir) ==
    [outcome |-> splice.outcome, content |-> splice.content, backups |-> dir]

\* update_blog_index, lines 916-983: the copy is made before the page is
\* read, and the page is spliced whatever create_backup returns
update_blog_index(cache, dir, now, backup) ==
    IF index_html = NoFile
    THEN [outcome |-> "no_index", content |-> index_html, backups |-> dir]
    ELSE IndexResult(Splice(index_html, cache, now),
                     create_backup(dir, IndexStem, TRUE, index_html, now,
                                   backup))

\* what a run reports: parsed are the slugs parse_html_file was called on,
\* failed those it returned None for
Report(op, outcome, slug, acc, saved, index) ==
    [ op |-> op, outcome |-> outcome, slug |-> slug,
      parsed |-> acc.parsed, failed |-> acc.failed,
      counts |-> acc.counts, saved |-> saved, index |-> index ]

\* PassStart with the store cleared for the pass
PassStartCleared(cache) ==
    [ cache |-> <<>>, parsed |-> {}, failed |-> {},
      counts |-> [done |-> 0, skipped |-> 0, errors |-> 0] ]

\* the counters and logs of an indexing pass, at its start
PassStart(cache) ==
    [ cache |-> cache, parsed |-> {}, failed |-> {},
      counts |-> [done |-> 0, skipped |-> 0, errors |-> 0] ]

NoPass == PassStart(<<>>)

-----------------------------------------------------------------------------
\* lines 1004-1011: the record create_post stores, with the hash of the
\* document it has written
created_record(form, slug, now) ==
    [get_user_input(form, slug, now) EXCEPT
        !.file_hash = hexdigest(PostFiles[form, slug, now].events)]

\* create_post, lines 985-1022
CreatePost(form, now, confirmed, template_found, file_backup, save, index_backup) ==
    LET slug == create_slug(form.title)
    IN  IF ~confirmed
        THEN /\ last' = Report("create_post", "cancelled", slug, NoPass,
                               FALSE, "none")
             /\ UNCHANGED <<metadata_cache, blog_files, index_html,
                            metadata_file, backups>>
        ELSE IF ~template_found
        THEN \* load_template raises; create_post reports the error
             /\ last' = Report("create_post", "error", slug, NoPass,
                               FALSE, "none")
             /\ UNCHANGED <<metadata_cache, blog_files, index_html,
                            metadata_file, backups>>
        ELSE LET metadata == created_record(form, slug, now)
                 cache    == DictSet(metadata_cache, metadata.slug, metadata)
                 \* create_post_file, lines 867-869
                 copies   == IF slug \in DOMAIN blog_files
                             THEN create_backup(backups, slug, TRUE,
                                                blog_files[slug], now,
                                                file_backup)
                             ELSE backups
                 index    == update_blog_index(cache, copies, now, index_backup)
             IN  /\ blog_files' = MapPut(blog_files, metadata.slug,
                                         PostFiles[form, slug, now])
                 /\ metadata_cache' = cache
                 /\ metadata_file' = save_metadata(cache, save)
                 /\ index_html' = index.content
                 /\ backups' = index.backups
                 /\ last' = Report("create_post", "created", slug, NoPass,
                                   TRUE, index.outcome)

\* delete_post, lines 1095-1176
DeletePost(slug, now, confirmed, file_backup, save, index_backup) ==
    IF ~DictHas(metadata_cache, slug)
    THEN /\ last' = Report("delete_post", "not_found", slug, NoPass,
                           FALSE, "none")
         /\ UNCHANGED <<metadata_cache, blog_files, index_html, metadata_file,
                        backups>>
    ELSE IF ~confirmed
    THEN /\ last' = Report("delete_post", "cancelled", slug, NoPass,
                           FALSE, "none")
         /\ UNCHANGED <<metadata_cache, blog_files, index_html, metadata_file,
                        backups>>
    ELSE LET cache  == DictDel(metadata_cache, slug)
             \* lines 1158-1160: the copy, then the unlink
             copies == IF slug \in DOMAIN blog_files
                       THEN create_backup(backups, slug, TRUE, blog_files[slug],
                                          now, file_backup)
                       ELSE backups
             index  == update_blog_index(cache, copies, now, index_backup)
         IN  /\ blog_files' = MapDel(blog_files, slug)
             /\ metadata_cache' = cache
             /\ metadata_file' = save_metadata(cache, save)
             /\ index_html' = index.content
             /\ backups' = index.backups
             /\ last' = Report("delete_post", "deleted", slug, NoPass,
                               TRUE, index.outcome)

\* index_file without the test of line 477
index_file_no_skip(acc, slug, unreadable) ==
    IF slug \in unreadable
    THEN [acc EXCEPT !.parsed = @ \cup {slug}, !.failed = @ \cup {slug},
                     !.counts.errors = @ + 1]
    ELSE [acc EXCEPT
            !.cache = DictSet(@, slug, Parsed[slug, blog_files[slug]]),
            !.parsed = @ \cup {slug},
            !.counts.done = @ + 1]

\* index_file with the record stored under the slug of its title
index_file_by_title(acc, slug, unreadable) ==
    IF DictHas(acc.cache, slug)
    THEN [acc EXCEPT !.counts.skipped = @ + 1]
    ELSE IF slug \in unreadable
    THEN [acc EXCEPT !.parsed = @ \cup {slug}, !.failed = @ \cup {slug},
                     !.counts.errors = @ + 1]
    ELSE [acc EXCEPT
            !.cache = DictSet(@, original_slug(Parsed[slug, blog_files[slug]].title),
                              Parsed[slug, blog_files[slug]]),
            !.parsed = @ \cup {slug},
            !.counts.done = @ + 1]

\* index_file with a skipped document counted as indexed
index_file_skip_counted(acc, slug, unreadable) ==
    IF DictHas(acc.cache, slug)
    THEN [acc EXCEPT !.counts.done = @ + 1]
    ELSE IF slug \in unreadable
    THEN [acc EXCEPT !.parsed = @ \cup {slug}, !.failed = @ \cup {slug},
                     !.counts.errors = @ + 1]
    ELSE [acc EXCEPT
            !.cache = DictSet(@, slug, Parsed[slug, blog_files[slug]]),
            !.parsed = @ \cup {slug},
            !.counts.done = @ + 1]

\* one turn of the loop of index_existing_files, lines 471-492
index_file(acc, slug, unreadable) ==
    IF DictHas(acc.cache, slug)
    THEN [acc EXCEPT !.counts.skipped = @ + 1]
    ELSE IF slug \in unreadable
    THEN [acc EXCEPT !.parsed = @ \cup {slug}, !.failed = @ \cup {slug},
                     !.counts.errors = @ + 1]
    ELSE [acc EXCEPT
            !.cache = DictSet(@, slug, Parsed[slug, blog_files[slug]]),
            !.parsed = @ \cup {slug},
            !.counts.done = @ + 1]

RECURSIVE index_loop_abort(_, _, _)
\* index_loop with the pass given up at the first document that fails
index_loop_abort(acc, order, unreadable) ==
    IF order = <<>> THEN acc
    ELSE IF Head(order) \in unreadable /\ ~DictHas(acc.cache, Head(order))
    THEN index_file(acc, Head(order), unreadable)
    ELSE index_loop_abort(index_file(acc, Head(order), unreadable),
                          Tail(order), unreadable)

RECURSIVE index_loop(_, _, _)
\* for file_path in html_files
index_loop(acc, order, unreadable) ==
    IF order = <<>> THEN acc
    ELSE index_loop(index_file(acc, Head(order), unreadable),
                    Tail(order), unreadable)

\* index_existing_files, lines 449-507: order is glob's listing, unreadable
\* the documents parse_html_file fails on (it returns None)
IndexExistingFiles(order, unreadable, save) ==
    IF order = <<>>
    THEN /\ last' = Report("index_existing_files", "no_files", <<>>, NoPass,
                           FALSE, "none")
         /\ UNCHANGED <<metadata_cache, blog_files, index_html, metadata_file,
                        backups>>
    ELSE LET acc == index_loop(PassStart(metadata_cache), order, unreadable)
         IN  /\ metadata_cache' = acc.cache
             /\ metadata_file' = IF acc.counts.done > 0
                                 THEN save_metadata(acc.cache, save)
                                 ELSE metadata_file
             /\ last' = Report("index_existing_files", "done", <<>>, acc,
                               acc.counts.done > 0, "none")
             /\ UNCHANGED <<blog_files, index_html, backups>>

\* preserve without line 551
preserve_no_series(metadata, original) ==
    IF ~original.indexed_from_file
    THEN [metadata EXCEPT !.view_count   = original.view_count,
                          !.created_date = original.created_date,
                          !.author       = original.author]
    ELSE [metadata EXCEPT !.view_count = original.view_count]

\* preserve with the provenance of the record replaced kept as well
preserve_provenance(metadata, original) ==
    IF ~original.indexed_from_file
    THEN [metadata EXCEPT !.view_count   = original.view_count,
                          !.created_date = original.created_date,
                          !.author       = original.author,
                          !.series       = original.series,
                          !.indexed_from_file = original.indexed_from_file]
    ELSE [metadata EXCEPT !.view_count = original.view_count]

\* preserve without the test of line 547
preserve_always(metadata, original) ==
    [metadata EXCEPT !.view_count   = original.view_count,
                     !.created_date = original.created_date,
                     !.author       = original.author,
                     !.series       = original.series]

\* lines 543-551: what the fresh record keeps of the record it replaces
preserve(metadata, original) ==
    IF ~original.indexed_from_file
    THEN [metadata EXCEPT !.view_count   = original.view_count,
                          !.created_date = original.created_date,
                          !.author       = original.author,
                          !.series       = original.series]
    ELSE [metadata EXCEPT !.view_count = original.view_count]

\* one turn of the loop of reindex_files, lines 535-558
reindex_file(acc, slug, original_metadata, unreadable) ==
    IF slug \in unreadable
    THEN [acc EXCEPT !.parsed = @ \cup {slug}, !.failed = @ \cup {slug},
                     !.counts.errors = @ + 1]
    ELSE LET metadata == Parsed[slug, blog_files[slug]]
             merged   == IF DictHas(original_metadata, slug)
                         THEN preserve(metadata, DictAt(original_metadata, slug))
                         ELSE metadata
         IN  [acc EXCEPT
                !.cache = DictSet(@, slug, merged),
                !.parsed = @ \cup {slug},
                !.counts.done = @ + 1]

RECURSIVE reindex_loop(_, _, _, _)
reindex_loop(acc, order, original_metadata, unreadable) ==
    IF order = <<>> THEN acc
    ELSE reindex_loop(reindex_file(acc, Head(order), original_metadata,
                                   unreadable),
                      Tail(order), original_metadata, unreadable)

\* reindex_files, lines 509-570.  The copy of the metadata file (lines
\* 518-521) is written beside that file, not into the backup directory,
\* and nothing reads it: it is not part of the state kept here
ReindexFiles(confirmed, order, unreadable, save) ==
    IF ~confirmed
    THEN /\ last' = Report("reindex_files", "cancelled", <<>>, NoPass,
                           FALSE, "none")
         /\ UNCHANGED <<metadata_cache, blog_files, index_html, metadata_file,
                        backups>>
    ELSE LET original_metadata == metadata_cache
             acc == reindex_loop(PassStart(metadata_cache), order,
                                 original_metadata, unreadable)
         IN  /\ metadata_cache' = acc.cache
             /\ metadata_file' = IF acc.counts.done > 0
                                 THEN save_metadata(acc.cache, save)
                                 ELSE metadata_file
             /\ last' = Report("reindex_files", "done", <<>>, acc,
                               acc.counts.done > 0, "none")
             /\ UNCHANGED <<blog_files, index_html, backups>>

\* the user takes a document out of the blog directory
RemoveDocument(slug) ==
    /\ blog_files' = MapDel(blog_files, slug)
    /\ last' = Report("remove_document", "done", slug, NoPass, FALSE, "none")
    /\ UNCHANGED <<metadata_cache, index_html, metadata_file, backups>>

\* the user puts a document into the blog directory, or edits one there
PutDocument(slug, doc) ==
    /\ blog_files' = MapPut(blog_files, slug, doc)
    /\ last' = Report("put_document", "done", slug, NoPass, FALSE, "none")
    /\ UNCHANGED <<metadata_cache, index_html, metadata_file, backups>>

\* a direct call of update_blog_index, lines 916-983
UpdateBlogIndex(now, backup) ==
    LET index == update_blog_index(metadata_cache, backups, now, backup)
    IN  /\ index_html' = index.content
        /\ backups' = index.backups
        /\ last' = Report("update_blog_index", index.outcome, <<>>, NoPass,
                          FALSE, index.outcome)
        /\ UNCHANGED <<metadata_cache, blog_files, metadata_file>>

-----------------------------------------------------------------------------
(***************************************************************************)
(* States the program starts from, and what its environment may do.        *)
(***************************************************************************)
Idle == Report("start", "done", <<>>, NoPass, FALSE, "none")

SlugAB == original_slug(FormJane.title)

\* BlogCMS.__init__ of a first run in an empty blog directory
StartEmpty == [ cache |-> <<>>, files |-> EmptyMap ]

\* a run that loads the metadata file of an earlier run, which had indexed
\* n.html; its view count has been set from outside since
StartLoaded ==
    [ cache |-> << <<SlugN, [Parsed[SlugN, DocNight(ClockA)]
                               EXCEPT !.view_count = 1]>> >>,
      files |-> MapPut(EmptyMap, SlugN, DocNight(ClockA)) ]

\* a run that loads the store of an earlier run, which had created a post
StartAuthored ==
    [ cache |-> << <<SlugAB, created_record(FormJane, SlugAB, ClockA)>> >>,
      files |-> MapPut(EmptyMap, SlugAB, PostFiles[FormJane, SlugAB, ClockA]) ]

\* the same after n.html had been indexed as well
StartMixed ==
    [ cache |-> StartLoaded.cache \o StartAuthored.cache,
      files |-> MapPut(StartLoaded.files, SlugAB,
                       PostFiles[FormJane, SlugAB, ClockA]) ]

\* two posts created, the second one at an earlier clock reading
StartTwoAuthored ==
    [ cache |-> StartAuthored.cache
                \o << <<SlugAB1, created_record(FormVideo, SlugAB1, ClockB)>> >>,
      files |-> MapPut(StartAuthored.files, SlugAB1,
                       PostFiles[FormVideo, SlugAB1, ClockB]) ]

\* a run that loads a store of three records, the oldest first, in which the
\* post created at ClockA has been marked a draft from outside
StartDraft ==
    [ cache |-> << <<SlugAB1, created_record(FormVideo, SlugAB1, ClockB)>>,
                   <<SlugAB, [created_record(FormJane, SlugAB, ClockA)
                                EXCEPT !.published = FALSE]>> >>
                \o StartLoaded.cache,
      files |-> MapPut(StartTwoAuthored.files, SlugN, DocNight(ClockA)) ]

Starts == { StartEmpty, StartLoaded }

InitCorpus ==
    /\ \E start \in Starts :
          /\ metadata_cache = start.cache
          /\ blog_files = start.files
          /\ metadata_file = Json(start.cache)
    /\ index_html = NoFile
    /\ last = Idle
    /\ authored = EmptyMap
    /\ slug_log = <<>>
    /\ runs = 0
    /\ cls = <<>>
    /\ backups = EmptyMap
    /\ scan = <<>>
    /\ scanner = <<>>
    /\ fed = <<>>

\* history: the records made by create_post and not deleted since
Authored ==
    authored' =
        IF last'.op = "create_post" /\ last'.outcome = "created"
        THEN MapPut(authored, last'.slug, DictAt(metadata_cache', last'.slug))
        ELSE IF last'.op = "delete_post" /\ last'.outcome = "deleted"
        THEN MapDel(authored, last'.slug)
        ELSE authored

\* glob's listing, and at most one document the extraction fails on
Listings ==
    Orders(DOMAIN blog_files)
    \X ({{}} \cup { {slug} : slug \in DOMAIN blog_files })

create_post ==
    \E form \in {FormJane}, now \in {ClockA}, confirmed \in BOOLEAN,
       template_found \in BOOLEAN :
        /\ Cardinality(DOMAIN blog_files) < MaxFiles
        /\ CreatePost(form, now, confirmed, template_found, "copied", "saved",
                      "copied")
        /\ Authored
        /\ UNCHANGED <<slug_log, runs, cls, scan, scanner, fed>>

delete_post ==
    \E slug \in DictKeys(metadata_cache) \cup {SlugN}, confirmed \in BOOLEAN :
        /\ DeletePost(slug, ClockA, confirmed, "copied", "saved", "copied")
        /\ Authored
        /\ UNCHANGED <<slug_log, runs, cls, scan, scanner, fed>>

index_existing_files ==
    \E listing \in Listings :
        /\ IndexExistingFiles(listing[1], listing[2], "saved")
        /\ UNCHANGED <<authored, slug_log, runs, cls, scan, scanner, fed>>

\* the listing is not read when the user declines
reindex_files ==
    \E confirmed \in BOOLEAN :
        \E listing \in IF confirmed THEN Listings ELSE { <<<<>>, {}>> } :
            /\ ReindexFiles(confirmed, listing[1], listing[2], "saved")
            /\ UNCHANGED <<authored, slug_log, runs, cls, scan, scanner, fed>>

\* the user puts a document of their own into the blog directory
add_document ==
    \E slug \in FileSlugs \ DOMAIN blog_files, doc \in CorpusDocs :
        /\ Cardinality(DOMAIN blog_files) < MaxFiles
        /\ PutDocument(slug, doc)
        /\ UNCHANGED <<authored, slug_log, runs, cls, scan, scanner, fed>>

\* the user replaces the text of a document
edit_document ==
    \E slug \in DOMAIN blog_files, doc \in CorpusDocs :
        /\ blog_files[slug] # doc
        /\ PutDocument(slug, doc)
        /\ UNCHANGED <<authored, slug_log, runs, cls, scan, scanner, fed>>

(***************************************************************************)
(* Spec: the store, the blog directory and the metadata file under every   *)
(* handler; there is no index.html.                                        *)
(***************************************************************************)
Init == InitCorpus

Next ==
    \/ create_post
    \/ delete_post
    \/ index_existing_files
    \/ reindex_files
    \/ add_document

Spec == Init /\ [][Next]_vars

(***************************************************************************)
(* SpecReindex: reindex_files run again and again over documents that are  *)
(* edited in between, from stores that hold scanned and authored records.  *)
(***************************************************************************)
ReindexStarts ==
    { StartLoaded, StartAuthored, StartMixed, StartTwoAuthored, StartDraft }

InitReindex ==
    /\ \E start \in ReindexStarts :
          /\ metadata_cache = start.cache
          /\ blog_files = start.files
          /\ metadata_file = Json(start.cache)
    /\ index_html = NoFile
    /\ last = Idle
    /\ authored = EmptyMap
    /\ slug_log = <<>>
    /\ runs = 0
    /\ cls = <<>>
    /\ backups = EmptyMap
    /\ scan = <<>>
    /\ scanner = <<>>
    /\ fed = <<>>

NextReindex ==
    \/ reindex_files
    \/ edit_document

SpecReindex == InitReindex /\ [][NextReindex]_vars

(***************************************************************************)
(* SpecSlug: create_post called again and again, over a store that may     *)
(* hold records index_existing_files has made from the user's documents.   *)
(* slug_log holds, for each call of create_slug, the base slug of the      *)
(* title, the slug returned, the keys of the store at the call, and        *)
(* whether create_post went on to insert the record.                       *)
(***************************************************************************)
\* a run that loads the store of an earlier run, which had indexed a-b-1.html
StartIndexed ==
    [ cache |-> << <<SlugAB1, Parsed[SlugAB1, DocExam(ClockB)]>> >>,
      files |-> MapPut(EmptyMap, SlugAB1, DocExam(ClockB)) ]

SlugStarts == { StartEmpty, StartLoaded, StartIndexed }

InitSlug ==
    /\ \E start \in SlugStarts :
          /\ metadata_cache = start.cache
          /\ blog_files = start.files
          /\ metadata_file = Json(start.cache)
    /\ index_html = NoFile
    /\ last = Idle
    /\ authored = EmptyMap
    /\ slug_log = <<>>
    /\ runs = 0
    /\ cls = <<>>
    /\ backups = EmptyMap
    /\ scan = <<>>
    /\ scanner = <<>>
    /\ fed = <<>>

allocate_slug ==
    \E form \in Forms, confirmed \in BOOLEAN :
        /\ Len(slug_log) < MaxCreates
        /\ CreatePost(form, ClockA, confirmed, TRUE, "copied", "saved", "copied")
        /\ slug_log' = Append(slug_log,
                              [ base     |-> original_slug(form.title),
                                slug     |-> last'.slug,
                                keys     |-> DictKeys(metadata_cache),
                                inserted |-> confirmed ])
        /\ Authored
        /\ UNCHANGED <<runs, cls, scan, scanner, fed>>

NextSlug == allocate_slug

SpecSlug == InitSlug /\ [][NextSlug]_vars

(***************************************************************************)
(* SpecSplice: update_blog_index called again and again on a listing page, *)
(* over a store that does not change.                                      *)
(***************************************************************************)
MaxRuns == 2

page_head == <<"<","h","1",">","B","l","o","g","<","/","h","1",">">>

page_tail == <<"<","p",">","e","n","d","<","/","p",">">>

other_div == <<"<div class=", "\"footer\"", ">", "f", "</div>">>

\* the listing pages update_blog_index may find
Pages ==
    { \* an empty grid
      page_head \o insertion_marker \o end_marker \o page_tail,
      \* nothing but the grid
      insertion_marker \o end_marker,
      \* a grid with text in it and another element after it
      page_head \o insertion_marker \o <<"o","l","d">> \o end_marker
          \o other_div \o page_tail,
      \* a grid that holds a card written by hand
      page_head \o insertion_marker
          \o <<"<div class=", "\"blog-card\"", ">", "c", "</div>">>
          \o end_marker \o page_tail,
      \* two grids
      insertion_marker \o <<"1">> \o end_marker
          \o insertion_marker \o <<"2">> \o end_marker,
      \* no grid
      page_head \o other_div \o page_tail,
      \* a grid that is never closed, after an element that is
      page_head \o other_div \o insertion_marker \o <<"x">> \o page_tail,
      \* the marker at the very end
      page_head \o insertion_marker }

SpliceStarts ==
    { StartEmpty, StartLoaded, StartAuthored, StartMixed, StartTwoAuthored,
      StartDraft }

InitSplice ==
    /\ \E start \in SpliceStarts :
          /\ metadata_cache = start.cache
          /\ blog_files = start.files
          /\ metadata_file = Json(start.cache)
    /\ index_html \in Pages
    /\ last = Idle
    /\ authored = EmptyMap
    /\ slug_log = <<>>
    /\ runs = 0
    /\ cls = <<>>
    /\ backups = EmptyMap
    /\ scan = <<>>
    /\ scanner = <<>>
    /\ fed = <<>>

update_index ==
    \E now \in Times :
        /\ runs < MaxRuns
        /\ UpdateBlogIndex(now, "copied")
        /\ runs' = runs + 1
        /\ UNCHANGED <<authored, slug_log, cls, scan, scanner, fed>>

NextSplice == update_index

SpecSplice == InitSplice /\ [][NextSplice]_vars

(***************************************************************************)
(* SpecClassify: detect_series_from_content applied to a title, a body and *)
(* keywords.                                                               *)
(***************************************************************************)
ClassifyTitles ==
    { <<"x">>, <<"N","i","g","h","t">>, <<"L","a","t","e"," ","C","r","a","m">>, <<"E","x","a","m"," ","S","T","R","E","S","S">>, <<"M","y"," ","C","o","m","m","u","t","e">> }

ClassifyBodies ==
    { <<>>, <<"s","t","u","d","y","i","n","g"," ","a","t"," ","n","i","g","h","t">>, <<"t","r","a","i","n">>, <<"e","a","t"," ","a"," ","m","e","a","l">>, <<"n","o","t","h","i","n","g"," ","h","e","r","e">> }

ClassifyKeywords ==
    { <<>>, <<"c","a","f","e">>, <<"B","R","T">>, <<"c","r","i","s","i","s",",","b","u","r","n","o","u","t">>, <<"e","v","e","n","i","n","g",",","f","o","o","d">> }

InitClassify ==
    /\ metadata_cache = <<>>
    /\ blog_files = EmptyMap
    /\ metadata_file = NoMetadataFile
    /\ index_html = NoFile
    /\ last = Idle
    /\ authored = EmptyMap
    /\ slug_log = <<>>
    /\ runs = 0
    /\ backups = EmptyMap
    /\ scan = <<>>
    /\ scanner = <<>>
    /\ fed = <<>>
    /\ \E title \in ClassifyTitles, content \in ClassifyBodies,
          keywords \in ClassifyKeywords :
            cls = [ title |-> title, content |-> content,
                    keywords |-> keywords, done |-> FALSE, series |-> <<>> ]

classify ==
    /\ ~cls.done
    /\ cls' = [cls EXCEPT
                 !.done = TRUE,
                 !.series = detect_series_from_content(cls.title, cls.content,
                                                       cls.keywords)]
    /\ UNCHANGED <<metadata_cache, blog_files, index_html, metadata_file,
                   last, authored, slug_log, runs, backups, scan, scanner, fed>>

NextClassify == classify

SpecClassify == InitClassify /\ [][NextClassify]_vars

(***************************************************************************)
(* SpecFaults: create_post and delete_post over a blog directory that has  *)
(* a listing page, with every way the copies and the write of the metadata *)
(* file may end.  runs bounds the calls of update_blog_index, which may    *)
(* lengthen the page at every call.                                        *)
(***************************************************************************)
FaultStarts == { StartEmpty, StartLoaded, StartAuthored }

\* blog/index.html: absent, with an empty grid, or without a grid
FaultPages ==
    { NoFile,
      page_head \o insertion_marker \o end_marker \o page_tail,
      page_head \o other_div \o page_tail }

InitFaults ==
    /\ \E start \in FaultStarts :
          /\ metadata_cache = start.cache
          /\ blog_files = start.files
          /\ metadata_file = Json(start.cache)
    /\ index_html \in FaultPages
    /\ last = Idle
    /\ authored = EmptyMap
    /\ slug_log = <<>>
    /\ runs = 0
    /\ cls = <<>>
    /\ backups = EmptyMap
    /\ scan = <<>>
    /\ scanner = <<>>
    /\ fed = <<>>

\* history: one more call of update_blog_index if the handler got to it
Ran == runs' = IF last'.index = "none" THEN runs ELSE runs + 1

create_post_io ==
    \E confirmed \in BOOLEAN, file_backup \in BackupOutcomes,
       save \in SaveOutcomes, index_backup \in BackupOutcomes :
        /\ runs < MaxRuns
        /\ Cardinality(DOMAIN blog_files) < MaxFiles
        /\ CreatePost(FormJane, ClockA, confirmed, TRUE, file_backup, save,
                      index_backup)
        /\ Ran
        /\ Authored
        /\ UNCHANGED <<slug_log, cls, scan, scanner, fed>>

delete_post_io ==
    \E slug \in DictKeys(metadata_cache), confirmed \in BOOLEAN,
       file_backup \in BackupOutcomes, save \in SaveOutcomes,
       index_backup \in BackupOutcomes :
        /\ runs < MaxRuns
        /\ DeletePost(slug, ClockB, confirmed, file_backup, save, index_backup)
        /\ Ran
        /\ Authored
        /\ UNCHANGED <<slug_log, cls, scan, scanner, fed>>

NextFaults ==
    \/ create_post_io
    \/ delete_post_io

SpecFaults == InitFaults /\ [][NextFaults]_vars

(***************************************************************************)
(* SpecPasses: the two indexing passes over a blog directory the user adds *)
(* documents to and removes documents from, with every way the write of    *)
(* the metadata file may end.                                              *)
(***************************************************************************)
index_existing_files_io ==
    \E listing \in Listings, save \in SaveOutcomes :
        /\ IndexExistingFiles(listing[1], listing[2], save)
        /\ UNCHANGED <<authored, slug_log, runs, cls, scan, scanner, fed>>

reindex_files_io ==
    \E listing \in Listings, save \in SaveOutcomes :
        /\ ReindexFiles(TRUE, listing[1], listing[2], save)
        /\ UNCHANGED <<authored, slug_log, runs, cls, scan, scanner, fed>>

\* the user removes a document, whose record stays in the store
remove_document ==
    \E slug \in DOMAIN blog_files :
        /\ RemoveDocument(slug)
        /\ UNCHANGED <<authored, slug_log, runs, cls, scan, scanner, fed>>

NextPasses ==
    \/ index_existing_files_io
    \/ reindex_files_io
    \/ add_document
    \/ remove_document

SpecPasses == InitCorpus /\ [][NextPasses]_vars

(***************************************************************************)
(* SpecExtract: parse_html_file applied to one document.  The documents    *)
(* have or lack a title and each of the three meta tags, whose content may *)
(* be empty, and have a body of one of several lengths around the limit of *)
(* the description.                                                        *)
(***************************************************************************)
\* a text of n characters
Repeat(c, n) == [i \in 1..n |-> c]

\* the texts inside the content container
ScanBodies ==
    { <<>>, <<"b","u","s">>, Repeat("x", DescriptionLimit - 1),
      Repeat("x", DescriptionLimit), Repeat("x", DescriptionLimit + 50) }

\* the content of a meta tag, None for a document without the tag
ScanDescriptions   == { None, <<>>, <<"d","1">> }
ScanOgDescriptions == { None, <<>>, <<"o","1">> }
ScanKeywords       == { None, <<>>, <<"k","1">> }

\* <meta attr="key" content="...">, if the document has it
MetaTag(attr, key, content) ==
    IF content = None THEN <<>>
    ELSE << StartTag("meta", << <<attr, key>>, <<"content", content>> >>) >>

\* the document with these parts
ScanDoc(has_title, description, og_description, keywords, body) ==
    [ events |->
        (IF has_title
         THEN << StartTag("title", <<>>),
                 Data(<<"N","i","g","h","t">> \o site_suffix),
                 EndTag("title") >>
         ELSE <<>>)
        \o MetaTag("name", <<"description">>, description)
        \o MetaTag("property", <<"og:description">>, og_description)
        \o MetaTag("name", <<"keywords">>, keywords)
        \o << StartTag("div", << <<"class", <<"article-content">> >> >>) >>
        \o (IF body = <<>> THEN <<>> ELSE << Data(body) >>)
        \o << EndTag("div") >>,
      mtime |-> ClockA ]

InitExtract ==
    /\ metadata_cache = <<>>
    /\ blog_files = EmptyMap
    /\ metadata_file = NoMetadataFile
    /\ index_html = NoFile
    /\ last = Idle
    /\ authored = EmptyMap
    /\ slug_log = <<>>
    /\ runs = 0
    /\ cls = <<>>
    /\ backups = EmptyMap
    /\ scanner = <<>>
    /\ fed = <<>>
    /\ \E slug \in FileSlugs, has_title \in BOOLEAN,
          description \in ScanDescriptions,
          og_description \in ScanOgDescriptions,
          keywords \in ScanKeywords, body \in ScanBodies :
            scan = [ slug           |-> slug,
                     has_title      |-> has_title,
                     description    |-> description,
                     og_description |-> og_description,
                     keywords       |-> keywords,
                     body           |-> body,
                     doc  |-> ScanDoc(has_title, description, og_description,
                                      keywords, body),
                     done |-> FALSE,
                     metadata |-> <<>> ]

scan_document ==
    /\ ~scan.done
    /\ scan' = [scan EXCEPT !.done = TRUE,
                            !.metadata = parse_html_file(scan.slug, scan.doc)]
    /\ UNCHANGED <<metadata_cache, blog_files, index_html, metadata_file,
                   last, authored, slug_log, runs, cls, backups, scanner, fed>>

NextExtract == scan_document

SpecExtract == InitExtract /\ [][NextExtract]_vars

(***************************************************************************)
(* SpecScanner: a BlogPostParser fed one event after the other, in every   *)
(* order, balanced or not.                                                 *)
(***************************************************************************)
\* how many events are fed
MaxEvents == 5

\* the events HTMLParser may hand to the scanner
ScannerEvents ==
    { StartTag("div", << <<"class", <<"article-content">> >> >>),
      StartTag("div", <<>>),
      EndTag("div"),
      StartTag("title", <<>>),
      EndTag("title"),
      Data(<<"a">>),
      Data(<<" ","b"," ">>) }

InitScanner ==
    /\ metadata_cache = <<>>
    /\ blog_files = EmptyMap
    /\ metadata_file = NoMetadataFile
    /\ index_html = NoFile
    /\ last = Idle
    /\ authored = EmptyMap
    /\ slug_log = <<>>
    /\ runs = 0
    /\ cls = <<>>
    /\ backups = EmptyMap
    /\ scan = <<>>
    /\ scanner = ParserInit
    /\ fed = <<>>

feed_event ==
    \E e \in ScannerEvents :
        /\ Len(fed) < MaxEvents
        /\ scanner' = handle_event(scanner, e)
        /\ fed' = Append(fed, e)
        /\ UNCHANGED <<metadata_cache, blog_files, index_html, metadata_file,
                       last, authored, slug_log, runs, cls, backups, scan>>

NextScanner == feed_event

SpecScanner == InitScanner /\ [][NextScanner]_vars

-----------------------------------------------------------------------------
(***************************************************************************)
(* The properties.                                                         *)
(***************************************************************************)
\* part occurs in text at offset i (counted from 0)
Occurs(text, part, i) ==
    /\ i >= 0
    /\ i + Len(part) <= Len(text)
    /\ SubSeq(text, i + 1, i + Len(part)) = part

\* the offsets from which on part occurs in text
Offsets(text, part, from) ==
    { i \in from..Len(text) : Occurs(text, part, i) }

\* the offset of the first occurrence at or after from
First(text, part, from) ==
    CHOOSE i \in Offsets(text, part, from) :
        \A j \in Offsets(text, part, from) : i <= j

\* the step is a run of update_blog_index
IsUpdate == last'.op = "update_blog_index" /\ runs' = runs + 1

\* the page has the opening marker
HasMarker(page) == Offsets(page, insertion_marker, 0) # {}

\* the offset just after the first opening marker
GridStart(page) == First(page, insertion_marker, 0) + Len(insertion_marker)

\* the page has the opening marker and a </div> after it
HasGrid(page) ==
    HasMarker(page) /\ Offsets(page, end_marker, GridStart(page)) # {}

\* C1: when update_blog_index has written the listing page and runs again
\* over the same records, the page it writes is the page it found: the
\* second run changes nothing.
C1_SpliceIdempotent ==
    [][ ( /\ IsUpdate
          /\ last.op = "update_blog_index"
          /\ last.outcome = "written"
          /\ metadata_cache' = metadata_cache )
        => index_html' = index_html ]_vars

\* the record a reindex pass leaves for slug, the record it found there, and
\* the fresh extraction of the document
After(slug)  == DictAt(metadata_cache', slug)
Prior(slug)  == DictAt(metadata_cache, slug)
Fresh(slug)  == Parsed[slug, blog_files[slug]]

\* the step is a pass of reindex_files that has extracted slug's document,
\* for which the store held a record
Reindexed(slug) ==
    /\ last'.op = "reindex_files"
    /\ last'.outcome = "done"
    /\ slug \in DOMAIN blog_files
    /\ slug \notin last'.failed
    /\ DictHas(metadata_cache, slug)

\* C2: when reindex_files processes a document whose prior record has
\* indexed_from_file False, the new record has the prior record's
\* created_date, author, series and view_count, and the fresh extraction's
\* value in every other field.
C2_ReindexPreservesAuthored ==
    [][ \A slug \in DOMAIN blog_files :
          (Reindexed(slug) /\ ~Prior(slug).indexed_from_file) =>
             /\ After(slug).created_date = Prior(slug).created_date
             /\ After(slug).author = Prior(slug).author
             /\ After(slug).series = Prior(slug).series
             /\ After(slug).view_count = Prior(slug).view_count
             /\ After(slug).title = Fresh(slug).title
             /\ After(slug).description = Fresh(slug).description
             /\ After(slug).keywords = Fresh(slug).keywords
             /\ After(slug).image_url = Fresh(slug).image_url
             /\ After(slug).post_type = Fresh(slug).post_type
             /\ After(slug).youtube_id = Fresh(slug).youtube_id
             /\ After(slug).file_hash = Fresh(slug).file_hash
             /\ After(slug).modified_date = Fresh(slug).modified_date
             /\ After(slug).published = Fresh(slug).published
             /\ After(slug).indexed_from_file = Fresh(slug).indexed_from_file
             /\ After(slug).slug = Fresh(slug).slug ]_vars

\* a pass has just reindexed an authored post whose document had been
\* replaced by the scanned article: the record has Jane's author, series
\* and creation time, and the title and description of the fresh extraction
C2_Witness ==
    /\ last.op = "reindex_files"
    /\ last.outcome = "done"
    /\ SlugAB \in DOMAIN blog_files
    /\ SlugAB \notin last.failed
    /\ blog_files[SlugAB] = DocNight(ClockA)
    /\ DictHas(metadata_cache, SlugAB)
    /\ LET record == DictAt(metadata_cache, SlugAB)
           fresh  == Parsed[SlugAB, DocNight(ClockA)]
       IN  /\ record.indexed_from_file
           /\ record.author = FormJane.author
           /\ record.series = FormJane.series
           /\ record.created_date = ClockA
           /\ record.author # fresh.author
           /\ record.series # fresh.series
           /\ record.created_date # fresh.created_date
           /\ record.title = fresh.title
           /\ record.title # FormJane.title
           /\ record.description = fresh.description

\* C3: a record made by create_post keeps the created_date, author and
\* series it was made with, whatever passes of reindex_files have run over
\* its document since.
C3_CuratedSurvives ==
    \A slug \in DOMAIN authored :
        DictHas(metadata_cache, slug) =>
            /\ DictAt(metadata_cache, slug).created_date
                  = authored[slug].created_date
            /\ DictAt(metadata_cache, slug).author = authored[slug].author
            /\ DictAt(metadata_cache, slug).series = authored[slug].series

\* C4: when reindex_files processes a document whose prior record has
\* indexed_from_file True, the new record is the fresh extraction with the
\* prior record's view_count.
C4_ReindexReplacesScanned ==
    [][ \A slug \in DOMAIN blog_files :
          (Reindexed(slug) /\ Prior(slug).indexed_from_file) =>
             After(slug) = [Fresh(slug) EXCEPT
                              !.view_count = Prior(slug).view_count] ]_vars

\* a pass has just reindexed n.html, whose record was scanned from the
\* article and whose text is now the video document: the record is the
\* extraction of the video document, with the view count of the old record
C4_Witness ==
    /\ last.op = "reindex_files"
    /\ last.outcome = "done"
    /\ SlugN \in DOMAIN blog_files
    /\ SlugN \notin last.failed
    /\ blog_files[SlugN] = DocExam(ClockB)
    /\ DictHas(metadata_cache, SlugN)
    /\ DictAt(metadata_cache, SlugN).view_count = 1
    /\ DictAt(metadata_cache, SlugN).post_type = <<"Video">>
    /\ DictAt(metadata_cache, SlugN).author
          # Parsed[SlugN, DocNight(ClockA)].author
    /\ DictAt(metadata_cache, SlugN).created_date
          # Parsed[SlugN, DocNight(ClockA)].created_date

\* base, base-1, base-2, ...: the slugs create_slug tries for a title
Candidate(base, k) ==
    IF k = 0 THEN base ELSE base \o <<"-">> \o ToDigits(k)

\* how many calls before the i-th had a title of the same base
Earlier(i) ==
    Cardinality({ j \in 1..(i - 1) : slug_log[j].base = slug_log[i].base })

\* C5 as stated: when every slug create_slug returned was inserted into the
\* store, the slugs returned are pairwise distinct, none was a key of the
\* store at its call, and the titles of one base got, in order, base,
\* base-1, base-2, ...
C5_SlugsInOrder ==
    (\A i \in 1..Len(slug_log) : slug_log[i].inserted) =>
        /\ \A i, j \in 1..Len(slug_log) :
              i # j => slug_log[i].slug # slug_log[j].slug
        /\ \A i \in 1..Len(slug_log) :
              /\ slug_log[i].slug \notin slug_log[i].keys
              /\ slug_log[i].slug = Candidate(slug_log[i].base, Earlier(i))

\* C5, amended: create_slug never returns a key of the store; it returns
\* the first of base, base-1, base-2, ... that is not a key; the slugs
\* inserted are pairwise distinct; and they are, in order, base, base-1,
\* base-2, ... when the store held none of these before the first call and
\* every slug returned was inserted.
C5_FirstFreeSlug ==
    /\ \A i \in 1..Len(slug_log) :
          /\ slug_log[i].slug \notin slug_log[i].keys
          /\ \E k \in 0..Cardinality(slug_log[i].keys) :
                /\ slug_log[i].slug = Candidate(slug_log[i].base, k)
                /\ \A j \in 0..(k - 1) :
                      Candidate(slug_log[i].base, j) \in slug_log[i].keys
    /\ \A i, j \in 1..Len(slug_log) :
          (i < j /\ slug_log[i].inserted) =>
              slug_log[i].slug # slug_log[j].slug
    /\ ( /\ \A i \in 1..Len(slug_log) : slug_log[i].inserted
         /\ \A i \in 1..Len(slug_log) : slug_log[i].base = slug_log[1].base
         /\ \A k \in 0..Len(slug_log) :
               Len(slug_log) > 0 =>
                   Candidate(slug_log[1].base, k) \notin slug_log[1].keys )
       => \A i \in 1..Len(slug_log) :
             slug_log[i].slug = Candidate(slug_log[i].base, i - 1)

\* three posts created from titles of one base, over a store that held
\* another record: they got base, base-1 and base-2
C5_Witness ==
    /\ Len(slug_log) = 3
    /\ \A i \in 1..3 : slug_log[i].inserted
    /\ slug_log[1].keys = {SlugN}
    /\ slug_log[1].slug = SlugAB
    /\ slug_log[2].slug = SlugAB \o <<"-", "1">>
    /\ slug_log[3].slug = SlugAB \o <<"-", "2">>
    /\ \E i, j \in 1..3 :
          /\ i # j
          /\ DictAt(metadata_cache, slug_log[i].slug).title = FormJane.title
          /\ DictAt(metadata_cache, slug_log[j].slug).title = FormVideo.title

\* C6: every entry of the store is held under the slug of its record, and
\* no two entries have the same key or records of the same slug.
C6_StoreKeyIsSlug ==
    \A i \in 1..Len(metadata_cache) :
        /\ metadata_cache[i][2].slug = metadata_cache[i][1]
        /\ \A j \in 1..Len(metadata_cache) :
              i # j => /\ metadata_cache[i][1] # metadata_cache[j][1]
                       /\ metadata_cache[i][2].slug # metadata_cache[j][2].slug

\* a pass of reindex_files has just replaced the records of a created post
\* and of an indexed document
C6_Witness ==
    /\ Len(metadata_cache) = 2
    /\ last.op = "reindex_files"
    /\ last.counts.done = 2
    /\ DOMAIN authored # {}
    /\ \E i \in 1..2 : metadata_cache[i][1] \in FileSlugs

Searched ==
    Lower(cls.title \o <<" ">> \o cls.content \o <<" ">> \o cls.keywords)

\* how many patterns of the k-th series of the table occur in the text
Matches(k) ==
    Cardinality({ i \in 1..Len(series_patterns[k][2]) :
                    Offsets(Searched, series_patterns[k][2][i], 0) # {} })

\* C9: detect_series_from_content returns the series with the highest count
\* of matching patterns, the one declared first among those of the highest
\* count, and the empty text exactly when no pattern of any series matches.
C9_ClassifierResult ==
    cls.done =>
        /\ cls.series = <<>>
              <=> \A k \in 1..Len(series_patterns) : Matches(k) = 0
        /\ cls.series # <<>> =>
              \E k \in 1..Len(series_patterns) :
                  /\ cls.series = <<series_patterns[k][1]>>
                  /\ \A j \in 1..Len(series_patterns) : Matches(j) <= Matches(k)
                  /\ \A j \in 1..(k - 1) : Matches(j) < Matches(k)

\* the classifier has answered for a text in which two series share the
\* highest count, and a third has a lower one
C9_Witness ==
    /\ cls.done
    /\ \E j, k, l \in 1..Len(series_patterns) :
          /\ j < k
          /\ Matches(j) = Matches(k)
          /\ \A m \in 1..Len(series_patterns) : Matches(m) <= Matches(j)
          /\ Matches(l) > 0
          /\ Matches(l) < Matches(j)
          /\ cls.series = <<series_patterns[j][1]>>

\* C10: in a pass of index_existing_files, a document whose slug is a key
\* of the store is not extracted and its record stays as it is; only
\* documents whose slug was not a key gain a record.
C10_IndexSkipsExisting ==
    [][ last'.op = "index_existing_files" =>
          /\ \A slug \in DictKeys(metadata_cache) :
                /\ slug \notin last'.parsed
                /\ DictHas(metadata_cache', slug)
                /\ DictAt(metadata_cache', slug) = DictAt(metadata_cache, slug)
          /\ \A slug \in DictKeys(metadata_cache') \ DictKeys(metadata_cache) :
                /\ slug \in DOMAIN blog_files
                /\ slug \in last'.parsed ]_vars

\* a pass has skipped the document of a created post, whose record is
\* still the one create_post made though its extraction would differ, and
\* has indexed another document
C10_Witness ==
    /\ last.op = "index_existing_files"
    /\ last.counts.skipped = 1
    /\ last.counts.done = 1
    /\ \E slug \in DOMAIN authored :
          /\ slug \in DOMAIN blog_files
          /\ slug \notin last.parsed
          /\ DictAt(metadata_cache, slug) = authored[slug]
          /\ DictAt(metadata_cache, slug) # Parsed[slug, blog_files[slug]]

-----------------------------------------------------------------------------
\* the step is a whole pass of index_existing_files / of reindex_files
IsIndexPass   == last'.op = "index_existing_files" /\ last'.outcome = "done"
IsReindexPass == last'.op = "reindex_files" /\ last'.outcome = "done"

\* the slugs the step has put into the store
Inserted == DictKeys(metadata_cache') \ DictKeys(metadata_cache)

\* the slugs the pass has stored a fresh record for
Updated == last'.parsed \ last'.failed

\* what the metadata file may hold after a call of _save_metadata
AfterSave ==
    metadata_file' \in { Json(metadata_cache'), metadata_file, Truncated }

\* C11: a pass of index_existing_files calls _save_metadata if and only if
\* it has inserted a record, a pass of reindex_files if and only if it has
\* updated one; a pass that saves nothing leaves the metadata file as it
\* was, also when the file is not what the store holds.
C11_SaveIffChanged ==
    [][ /\ IsIndexPass =>
              /\ last'.saved <=> Inserted # {}
              /\ Cardinality(Inserted) = last'.counts.done
              /\ IF last'.saved THEN AfterSave
                  ELSE metadata_file' = metadata_file
        /\ IsReindexPass =>
              /\ last'.saved <=> Updated # {}
              /\ Cardinality(Updated) = last'.counts.done
              /\ IF last'.saved THEN AfterSave
                  ELSE metadata_file' = metadata_file
      ]_vars

\* an index-new pass has skipped or failed on every document, and has left
\* alone a metadata file that an earlier failed write had left behind the
\* store
C11_Witness ==
    /\ last.op = "index_existing_files"
    /\ last.outcome = "done"
    /\ ~last.saved
    /\ last.counts.skipped >= 1
    /\ last.counts.errors >= 1
    /\ metadata_file # Json(metadata_cache)

\* C12: a document the extraction fails on is counted as failed and its
\* record, if the store has one, stays as it was; every other document of
\* the listing is still processed, and the counters of the pass add up to
\* the number of documents listed.
C12_FailureIsolated ==
    [][ /\ IsIndexPass =>
              /\ last'.counts.done + last'.counts.skipped
                    + last'.counts.errors = Cardinality(DOMAIN blog_files)
              /\ last'.counts.errors = Cardinality(last'.failed)
              /\ \A slug \in last'.failed :
                    /\ ~DictHas(metadata_cache, slug)
                    /\ ~DictHas(metadata_cache', slug)
              /\ \A slug \in DOMAIN blog_files \ last'.failed :
                    /\ DictHas(metadata_cache', slug)
                    /\ ~DictHas(metadata_cache, slug) =>
                          DictAt(metadata_cache', slug)
                            = Parsed[slug, blog_files[slug]]
        /\ IsReindexPass =>
              /\ last'.counts.done + last'.counts.errors
                    = Cardinality(DOMAIN blog_files)
              /\ last'.counts.errors = Cardinality(last'.failed)
              /\ \A slug \in last'.failed :
                    /\ DictHas(metadata_cache', slug)
                          <=> DictHas(metadata_cache, slug)
                    /\ DictHas(metadata_cache, slug) =>
                          DictAt(metadata_cache', slug)
                            = DictAt(metadata_cache, slug)
              /\ \A slug \in DOMAIN blog_files \ last'.failed :
                    /\ slug \in last'.parsed
                    /\ DictHas(metadata_cache', slug)
                    /\ DictAt(metadata_cache', slug).file_hash
                          = hexdigest(blog_files[slug].events)
      ]_vars

\* a pass has failed on one document and has stored the record of another
C12_Witness ==
    /\ last.op \in {"index_existing_files", "reindex_files"}
    /\ last.outcome = "done"
    /\ last.failed # {}
    /\ last.counts.done >= 1
    /\ \E slug \in last.parsed \ last.failed : DictHas(metadata_cache, slug)

-----------------------------------------------------------------------------
\* a meta tag that is there and has content
Present(content) == content # None /\ content # <<>>

\* the body text the scanner has gathered from the document of scan
BodyText == IF scan.body = <<>> THEN <<>> ELSE scan.body \o <<" ">>

\* the description made of the body text alone
BodyFallback ==
    IF Len(BodyText) > DescriptionLimit
    THEN Take(BodyText, DescriptionLimit) \o <<".", ".", ".">>
    ELSE BodyText

\* C13: the description is the content of the meta description if that is
\* not empty, else that of og:description if that is not empty, else the
\* body fallback, whatever the length of the body text.
C13_DescriptionFallbackOrder ==
    scan # <<>> /\ scan.done =>
        scan.metadata.description =
            IF Present(scan.description) THEN scan.description
            ELSE IF Present(scan.og_description) THEN scan.og_description
            ELSE BodyFallback

\* C14: a document with no title, no meta description and no
\* og:description gets the title "Untitled (<slug>)" and, as description,
\* the first 200 characters of the body text and "..." when the body text
\* is longer than 200 characters, the whole body text otherwise.
C14_ExtractionFallback ==
    ( /\ scan # <<>>
      /\ scan.done
      /\ ~scan.has_title
      /\ scan.description = None
      /\ scan.og_description = None ) =>
        /\ scan.metadata.title = <<"Untitled (">> \o scan.slug \o <<")">>
        /\ scan.metadata.description = BodyFallback
        /\ Len(BodyText) > DescriptionLimit =>
              /\ Len(scan.metadata.description) = DescriptionLimit + 3
              /\ Take(scan.metadata.description, DescriptionLimit)
                    = Take(BodyText, DescriptionLimit)
        /\ Len(BodyText) <= DescriptionLimit =>
              scan.metadata.description = BodyText

\* such a document with a body text of 251 characters has been scanned
C14_Witness ==
    /\ scan # <<>>
    /\ scan.done
    /\ ~scan.has_title
    /\ scan.description = None
    /\ scan.og_description = None
    /\ Len(BodyText) = DescriptionLimit + 51
    /\ Len(scan.metadata.description) = DescriptionLimit + 3
    /\ scan.metadata.title = <<"Untitled (">> \o SlugN \o <<")">>

\* C20: the keywords are the content of the meta keywords tag if that is
\* not empty, and the default string otherwise, also when the tag is there
\* with an empty content.
C20_KeywordsFallback ==
    scan # <<>> /\ scan.done =>
        scan.metadata.keywords =
            IF Present(scan.keywords) THEN scan.keywords
            ELSE default_keywords

-----------------------------------------------------------------------------
\* C15: every record of the store that has a video id has one of exactly
\* 11 characters, each a letter, a digit, "_" or "-".
C15_VideoIdWellFormed ==
    \A slug \in DictKeys(metadata_cache) :
        LET youtube_id == DictAt(metadata_cache, slug).youtube_id
        IN  youtube_id # <<>> =>
                /\ Len(youtube_id) = 11
                /\ \A i \in 1..Len(youtube_id) : IsIdChar(youtube_id[i])

-----------------------------------------------------------------------------
\* after the step the backup directory holds a copy of the file of this
\* stem with the content the file had before the step
CopyKept(stem, content) ==
    \E name \in DOMAIN backups' :
        /\ name[1] = stem
        /\ backups'[name] = content

\* C16: whenever a run of update_blog_index writes the listing page, the
\* backup directory holds a copy of the page as it was before the write.
C16_BackupBeforeIndexWrite ==
    [][ index_html' # index_html => CopyKept(IndexStem, index_html) ]_vars

\* C17: whenever a document is removed from the blog directory, the backup
\* directory holds a copy of it; and a record leaves the store only in a
\* confirmed run of delete_post.
C17_DeleteAfterBackup ==
    [][ /\ \A slug \in DOMAIN blog_files \ DOMAIN blog_files' :
              CopyKept(slug, blog_files[slug])
        /\ DictKeys(metadata_cache) \ DictKeys(metadata_cache') # {} =>
              /\ last'.op = "delete_post"
              /\ last'.outcome = "deleted"
              /\ DictKeys(metadata_cache) \ DictKeys(metadata_cache')
                    = {last'.slug}
      ]_vars

\* the step is a run of create_post or delete_post that called
\* _save_metadata and did not get the store written
SaveFailed ==
    /\ last'.op \in {"create_post", "delete_post"}
    /\ last'.saved
    /\ metadata_file' # Json(metadata_cache')

\* C18: a run of create_post or delete_post whose write of the metadata
\* file fails ends as failed: it reports no success, does not go on to
\* update_blog_index, and leaves the metadata file as it was.
C18_SaveFailureFatal ==
    [][ SaveFailed =>
          /\ last'.outcome \notin {"created", "deleted"}
          /\ last'.index = "none"
          /\ index_html' = index_html
          /\ metadata_file' = metadata_file
      ]_vars

-----------------------------------------------------------------------------
\* C19: a call of create_slug with a title of empty base never returns the
\* empty string; when every such call before it had its slug inserted, the
\* first such call returns "-1", the second "-2", and so on.
C19_EmptyTitleSlugs ==
    \A i \in 1..Len(slug_log) :
        slug_log[i].base = <<>> =>
            /\ slug_log[i].slug # <<>>
            /\ (\A j \in 1..Len(slug_log) : slug_log[j].inserted) =>
                  slug_log[i].slug = Candidate(<<>>, Earlier(i) + 1)

-----------------------------------------------------------------------------
\* C26: after every event the scanner's content_depth is not negative, and
\* in_content is true exactly when content_depth is greater than zero.
C26_DepthInvariant ==
    /\ scanner.content_depth >= 0
    /\ scanner.in_content <=> scanner.content_depth > 0

\* a </div> came before any container, and the scanner is now two levels
\* deep in one
C26_Witness ==
    /\ Len(fed) >= 3
    /\ fed[1] = EndTag("div")
    /\ scanner.in_content
    /\ scanner.content_depth = 2

-----------------------------------------------------------------------------
\* the event opens a content container
OpensContainer(e) ==
    /\ e.kind = "start"
    /\ e.tag = "div"
    /\ \E j \in 1..Len(e.attrs) :
          /\ e.attrs[j][1] = "class"
          /\ \/ Contains(e.attrs[j][2], <<"article-content">>)
             \/ Contains(e.attrs[j][2], <<"video-container">>)
             \/ Contains(e.attrs[j][2], <<"poster-container">>)

\* nothing read yet: outside every container and every title
BodyStart ==
    [ inside |-> FALSE, closed |-> FALSE, depth |-> 0, in_title |-> FALSE,
      text |-> <<>> ]

\* the first content container of the events read by nesting: every <div>
\* inside it, of whatever class, is one level more, and the container ends
\* at the </div> that matches its own start tag
BodyStep(w, e) ==
    IF w.closed THEN w
    ELSE IF e.kind = "start" /\ e.tag = "div"
    THEN IF w.inside THEN [w EXCEPT !.depth = @ + 1]
         ELSE IF OpensContainer(e)
         THEN [w EXCEPT !.inside = TRUE, !.depth = 1]
         ELSE w
    ELSE IF e.kind = "end" /\ e.tag = "div" /\ w.inside
    THEN IF w.depth = 1
         THEN [w EXCEPT !.inside = FALSE, !.closed = TRUE, !.depth = 0]
         ELSE [w EXCEPT !.depth = @ - 1]
    ELSE IF e.kind = "start" /\ e.tag = "title"
    THEN [w EXCEPT !.in_title = TRUE]
    ELSE IF e.kind = "end" /\ e.tag = "title"
    THEN [w EXCEPT !.in_title = FALSE]
    ELSE IF e.kind = "data" /\ w.inside /\ ~w.in_title /\ Strip(e.data) # <<>>
    THEN [w EXCEPT !.text = @ \o Strip(e.data) \o <<" ">>]
    ELSE w

RECURSIVE BodyWalk(_, _)
BodyWalk(w, events) ==
    IF events = <<>> THEN w
    ELSE BodyWalk(BodyStep(w, Head(events)), Tail(events))

\* C21: from the start tag of the first content container to the </div>
\* that matches it, the scanner is capturing and the body text is made of
\* every text chunk met so far (chunks of a <title> apart), however the
\* <div> elements inside the container nest and whatever their class; at
\* the matching </div>, and not before, the capture ends.
C21_BodyCaptureByDepth ==
    ( /\ fed # <<>>
      /\ ~BodyWalk(BodyStart, SubSeq(fed, 1, Len(fed) - 1)).closed ) =>
        /\ scanner.in_content = BodyWalk(BodyStart, fed).inside
        /\ scanner.content = BodyWalk(BodyStart, fed).text

\* nothing read yet of a title
TitleStart == [ inside |-> FALSE, closed |-> FALSE, text |-> <<>> ]

\* the first <title> element of the events: from the first <title> to the
\* first </title> after it
TitleStep(w, e) ==
    IF w.closed THEN w
    ELSE IF e.kind = "start" /\ e.tag = "title"
    THEN [w EXCEPT !.inside = TRUE]
    ELSE IF e.kind = "end" /\ e.tag = "title" /\ w.inside
    THEN [w EXCEPT !.inside = FALSE, !.closed = TRUE]
    ELSE IF e.kind = "data" /\ w.inside
    THEN [w EXCEPT !.text = @ \o Strip(e.data)]
    ELSE w

RECURSIVE TitleWalk(_, _)
TitleWalk(w, events) ==
    IF events = <<>> THEN w
    ELSE TitleWalk(TitleStep(w, Head(events)), Tail(events))

\* C22: the title the scanner holds is the text of the chunks inside the
\* first <title> element; the text of a later <title> element is not added.
C22_FirstTitleOnly ==
    scanner.title = TitleWalk(TitleStart, fed).text

-----------------------------------------------------------------------------
RECURSIVE SplitOn(_, _)
\* the parts of text between the occurrences of the chunk sep; no part for
\* an empty text
SplitOn(text, sep) ==
    IF text = <<>> THEN <<>>
    ELSE IF Offsets(text, sep, 0) = {} THEN <<text>>
    ELSE <<Take(text, First(text, sep, 0))>>
         \o SplitOn(Drop(text, First(text, sep, 0) + Len(sep)), sep)

\* the cards of the region written on a page: the parts between the begin
\* comment after the opening marker and the first end comment after it
CardsWritten(page) ==
    LET from == GridStart(page) + Len(begin_comment)
        to   == First(page, end_comment, from)
    IN  SplitOn(SubSeq(page, from + 1, to), card_separator)

href_open == <<">\n    <a href=\"">>

href_close == <<".html\">\n        ">>

\* the slug a card links to
CardSlug(card) ==
    LET from == First(card, href_open, 0) + Len(href_open)
    IN  SubSeq(card, from + 1, First(card, href_close, from))

\* C23: the region update_blog_index has written holds one card for each
\* published record of the store and no other card, so none for a record
\* that is not published, and the created dates of the cards' records do
\* not increase from one card to the next.
C23_CardsSelectedAndOrdered ==
    (last.op = "update_blog_index" /\ last.outcome = "written") =>
        LET cards == CardsWritten(index_html)
            links == [i \in 1..Len(cards) |-> CardSlug(cards[i])]
        IN  /\ Occurs(index_html, begin_comment, GridStart(index_html))
            /\ \A k \in 1..Len(metadata_cache) :
                  Cardinality({ i \in 1..Len(links) :
                                  links[i] = metadata_cache[k][2].slug })
                      = IF metadata_cache[k][2].published THEN 1 ELSE 0
            /\ \A i \in 1..Len(links) : DictHas(metadata_cache, links[i])
            /\ \A i, j \in 1..Len(links) :
                  i < j =>
                      ~StampLess(DictAt(metadata_cache, links[i]).created_date,
                                 DictAt(metadata_cache, links[j]).created_date)

\* the page has been written for the store of three records, of which the
\* second is a draft and the last one is the newest: two cards, the newest
\* record's first
C23_Witness ==
    /\ last.op = "update_blog_index"
    /\ last.outcome = "written"
    /\ metadata_cache = StartDraft.cache
    /\ ~metadata_cache[2][2].published
    /\ StampLess(metadata_cache[1][2].created_date,
                 metadata_cache[3][2].created_date)
    /\ Len(CardsWritten(index_html)) = 2
    /\ CardSlug(CardsWritten(index_html)[1]) = SlugN
    /\ runs = 2

-----------------------------------------------------------------------------
\* C24: after a pass of reindex_files, the record of every document the
\* pass has extracted has indexed_from_file True and published True, also
\* when the record it replaces was made by create_post or was a draft.
C24_ReindexMakesScanned ==
    [][ \A slug \in DOMAIN blog_files :
          ( /\ last'.op = "reindex_files"
            /\ last'.outcome = "done"
            /\ slug \notin last'.failed ) =>
              /\ DictHas(metadata_cache', slug)
              /\ After(slug).indexed_from_file
              /\ After(slug).published ]_vars

\* a pass has extracted the document of the post of the three-record store
\* that was created by hand and marked a draft: its record still has the
\* creation time and the author of the form, and is now scanned and
\* published
C24_Witness ==
    /\ last.op = "reindex_files"
    /\ last.outcome = "done"
    /\ Len(metadata_cache) = 3
    /\ SlugAB \in DOMAIN blog_files
    /\ SlugAB \notin last.failed
    /\ LET record == DictAt(metadata_cache, SlugAB)
           fresh  == Parsed[SlugAB, blog_files[SlugAB]]
       IN  /\ record.created_date = StartDraft.cache[2][2].created_date
           /\ record.author = FormJane.author
           /\ record.created_date # fresh.created_date
           /\ ~StartDraft.cache[2][2].indexed_from_file
           /\ ~StartDraft.cache[2][2].published
           /\ record.indexed_from_file
           /\ record.published

-----------------------------------------------------------------------------
\* the records of the store whose document is not in the blog directory
Orphans == DictKeys(metadata_cache) \ DOMAIN blog_files

=============================================================================
